---- MODULE Spec2Model ----
(***************************************************************************)
(* Climate-driven risk scoring of the Skyinsights dashboard.               *)
(*                                                                         *)
(*   src/src/utils/climateRiskRules.ts  calculateDiseaseRisks,             *)
(*                                      calculatePestRisks and helpers     *)
(*   src/unnamed/part_007               analyzeRisk (planet-aoi function)  *)
(*                                                                         *)
(* Representation.                                                         *)
(*  - A reading (ClimateParams / ClimateData) is a function whose DOMAIN   *)
(*    is the set of fields the caller supplied: `p.f !== undefined` is     *)
(*    `f \in DOMAIN p`, and `p.f ?? d` is Coalesce.                        *)
(*  - Climate values are whole numbers of their unit.  Every threshold of  *)
(*    the catalog and of analyzeRisk is a whole number.                    *)
(*  - Scores are whole numbers.  The code multiplies a raw score (always a *)
(*    multiple of 20) by a weight that is a multiple of 0.05, so the exact *)
(*    product is a whole number; the weights are kept as percentages       *)
(*    (1.2 is 120).  The IEEE-754 product differs from the exact one by    *)
(*    less than 1e-13, which moves no value across 30, 70 or 100 and makes *)
(*    no two different products equal, so levels, clamping and the sort    *)
(*    order are those of the code.                                         *)
(*  - Characters outside ASCII in names and labels are transliterated or   *)
(*    (emoji) dropped; the non-breaking hyphen U+2011 of the Bull's-eye    *)
(*    Rot name is written [U+2011] wherever the source has it.             *)
(***************************************************************************)
EXTENDS Integers, Sequences, FiniteSets, TLC

VARIABLES
    params,     \* the ClimateParams argument of the rules engine
    pc,         \* "idle" before a call, then the name of the function that ran
    results,    \* RiskItem[] returned by calculateDiseaseRisks / calculatePestRisks
    climate,    \* the ClimateData argument of analyzeRisk
    analysis,   \* RiskAnalysis returned by analyzeRisk
    viewParams, \* ClimateRiskPredictor: the climate form
    view,       \* ClimateRiskPredictor: 'Diseases' or 'Pests'
    riskModel,  \* ClimateRiskPredictor: 'standard' or 'meta'
    farmHealthScore, \* ClimateRiskPredictor: the displayed health score
    planet,     \* fetchPlanetInsights: its request, the backend's behaviour
                \* and the promise it returned
    isAutoFilling, \* ClimateRiskPredictor: the loading flag of the auto-fill
    timers,     \* ClimateRiskPredictor: the pending setTimeout callbacks of
                \* handlePlanetAutoFill, oldest first, each with the values
                \* its closure captured
    handler     \* planet-aoi: the request being served, the behaviour of the
                \* weather service, the requests made to it and the response

\* the state of the ClimateRiskPredictor component besides `results`
ui == <<viewParams, view, riskModel, farmHealthScore, isAutoFilling, timers>>

vars == <<params, pc, results, climate, analysis, viewParams, view, riskModel,
          farmHealthScore, planet, isAutoFilling, timers, handler>>

(***************************************************************************)
(* Optional fields                                                         *)
(***************************************************************************)
\* p.f !== undefined
Has(p, f) == f \in DOMAIN p

\* p.a ?? p.b ?? d
Coalesce(p, a, b, d) ==
    IF Has(p, a) THEN p[a] ELSE IF Has(p, b) THEN p[b] ELSE d

\* p.f ?? d
OrElse(p, f, d) == IF Has(p, f) THEN p[f] ELSE d

\* a boolean flag used as a condition: undefined is falsy
Truthy(p, f) == Has(p, f) /\ p[f]

Min(a, b) == IF a < b THEN a ELSE b

(***************************************************************************)
(* climateRiskRules.ts: weights, levels, the two scorers                   *)
(***************************************************************************)
\* faulty variant: the Bull's-eye Rot key typed with an ASCII hyphen, as in
\* the second prevention-tip table of ClimateRiskPredictor.tsx
diseaseWeightsAsciiHyphen ==
    [n \in {"Brown Rot", "Bull's-eye Rot", "Apple Scab",
            "Apple Leaf Blotch (Alternaria)"} |->
        CASE n = "Brown Rot" -> 120
          [] n = "Bull's-eye Rot" -> 115
          [] n = "Apple Scab" -> 110
          [] n = "Apple Leaf Blotch (Alternaria)" -> 105]

\* diseaseWeights, in percent (1.2 -> 120)
diseaseWeights ==
    [n \in {"Brown Rot", "Bull's[U+2011]eye Rot", "Apple Scab",
            "Apple Leaf Blotch (Alternaria)"} |->
        CASE n = "Brown Rot" -> 120
          [] n = "Bull's[U+2011]eye Rot" -> 115
          [] n = "Apple Scab" -> 110
          [] n = "Apple Leaf Blotch (Alternaria)" -> 105]

\* faulty variant: a name missing from the table takes the largest listed
\* weight instead of 1
WeightOfUnlistedLargest(name) ==
    IF name \in DOMAIN diseaseWeights THEN diseaseWeights[name] ELSE 120


\* diseaseWeights[name] ?? 1
WeightOf(name) ==
    IF name \in DOMAIN diseaseWeights THEN diseaseWeights[name] ELSE 100

\* faulty variant: a weighted score over 100 wraps around instead of being
\* clamped
applyDiseaseWeightWrap(name, rawScore) ==
    LET w == WeightOf(name)
        weighted == (rawScore * w) \div 100
    IN  IF weighted > 100 THEN weighted - 100 ELSE weighted


applyDiseaseWeight(name, rawScore) ==
    LET w == WeightOf(name)
        weighted == (rawScore * w) \div 100
    IN  IF weighted > 100 THEN 100 ELSE weighted

levelFor(score) ==
    IF score <= 30 THEN "Low"
    ELSE IF score <= 70 THEN "Medium"
    ELSE "High"

\* faulty variant: the cap of Math.min(100, ...) left out
scoreFromMatchesUncapped(matches) == Len(matches) * 20

\* faulty variant: 25 points for each matched check
scoreFromMatchesBy25(matches) == Min(100, Len(matches) * 25)


scoreFromMatches(matches) == Min(100, Len(matches) * 20)

\* item.checks.filter(([, ok]) => ok).map(([label]) => label)
RECURSIVE MatchedLabels(_)
MatchedLabels(checks) ==
    IF checks = <<>> THEN <<>>
    ELSE IF Head(checks)[2]
         THEN <<Head(checks)[1]>> \o MatchedLabels(Tail(checks))
         ELSE MatchedLabels(Tail(checks))

\* faulty variant: the filter left out, every label of the item reported
scoreStandardItemUnfiltered(item, p) ==
    LET matched == [i \in 1..Len(item.checks) |-> item.checks[i][1]]
    IN  [score |-> scoreFromMatches(matched), matchedFactors |-> matched]

scoreStandardItem(item, p) ==
    LET matched == MatchedLabels(item.checks)
    IN  [score |-> scoreFromMatches(matched), matchedFactors |-> matched]

\* faulty variant: a range counted only when its upper bound is declared
MetaRangeNeedsMax(meta, lo, hi, p, f) ==
    /\ Has(meta, lo)
    /\ Has(meta, hi)
    /\ Has(p, f)
    /\ p[f] >= meta[lo]
    /\ p[f] <= meta[hi]

\* faulty variant: the reading's value tested for truthiness (params.f &&)
\* instead of against undefined, so a value of 0 counts as missing
MetaRangeTruthyValue(meta, lo, hi, p, f) ==
    /\ Has(meta, lo)
    /\ Has(p, f) /\ p[f] # 0
    /\ p[f] >= meta[lo]
    /\ (~Has(meta, hi) \/ p[f] <= meta[hi])

\* One optional-max range test of scoreFromMeta:
\*   meta.lo !== undefined && params.f !== undefined && params.f >= meta.lo
\*   && (meta.hi === undefined || params.f <= meta.hi)
MetaRange(meta, lo, hi, p, f) ==
    /\ Has(meta, lo)
    /\ Has(p, f)
    /\ p[f] >= meta[lo]
    /\ (~Has(meta, hi) \/ p[f] <= meta[hi])

\* name.toLowerCase().startsWith('necrotic leaf blotch')
LowerCaseStartsWithNecrotic(name) ==
    name \in {"Necrotic Leaf Blotch (physiological)", "Necrotic Leaf Blotch",
              "necrotic leaf blotch"}

\* the sequence of optional pushes of scoreFromMeta, in source order
MetaSteps(name, meta, p) ==
    << <<"Temperature " \o ToString(OrElse(meta, "tempMin", 0)) \o "-"
            \o ToString(OrElse(meta, "tempMax", 0)) \o "C",
         /\ Has(meta, "tempMin") /\ Has(meta, "tempMax")
         /\ p.temperature >= meta.tempMin /\ p.temperature <= meta.tempMax>>,
       <<"RH " \o ToString(OrElse(meta, "rhMin", 0))
            \o (IF Has(meta, "rhMax") /\ meta.rhMax # 0
                THEN "-" \o ToString(meta.rhMax) ELSE "+") \o "%",
         MetaRange(meta, "rhMin", "rhMax", p, "relativeHumidity")>>,
       <<"Rainfall in favourable range",
         MetaRange(meta, "rainMin", "rainMax", p, "rainfall")>>,
       <<"Leaf/fruit wetness in favourable range",
         MetaRange(meta, "wetMin", "wetMax", p, "wetnessHours")>>,
       <<"Wind speed in favourable range",
         MetaRange(meta, "windMin", "windMax", p, "windSpeed")>>,
       <<"Soil moisture in favourable range",
         MetaRange(meta, "soilMin", "soilMax", p, "soilMoisture")>>,
       <<"High canopy humidity (>=" \o ToString(OrElse(meta, "canopyMin", 0)) \o "%)",
         /\ Has(meta, "canopyMin") /\ Has(p, "canopyHumidity")
         /\ p.canopyHumidity >= meta.canopyMin>>,
       <<"High dust level",
         /\ Has(meta, "dustLevel") /\ meta.dustLevel = "high"
         /\ Has(p, "dustLevel") /\ p.dustLevel = "high">>,
       <<"Poor drainage / standing water",
         /\ Has(meta, "drainage") /\ meta.drainage = "poor"
         /\ \/ (Has(p, "drainage") /\ p.drainage = "poor")
            \/ Truthy(p, "hasStandingWater48h")>>,
       <<"Temperature fluctuation >10C in 24-48 h",
         LowerCaseStartsWithNecrotic(name) /\ Truthy(p, "hasTempJump10C")>>,
       <<"Drought followed by heavy rain",
         LowerCaseStartsWithNecrotic(name) /\ Truthy(p, "hadDroughtThenHeavyRain")>> >>

\* scoreFromMeta: `meta` is NoMeta when the item has none (if (!meta) return)
NoMeta == [none |-> TRUE]

scoreFromMeta(name, meta, p) ==
    IF meta = NoMeta THEN [score |-> 0, matchedFactors |-> <<>>]
    ELSE LET matched == MatchedLabels(MetaSteps(name, meta, p))
             score == 20 * Len(matched)
         IN  [score |-> IF score > 100 THEN 100 ELSE score,
              matchedFactors |-> matched]

(***************************************************************************)
(* climateRiskRules.ts: the two catalogs                                   *)
(***************************************************************************)
\* typeof canopyHumidity === 'number' ? canopyHumidity >= 70 : false
CanopyHigh(p) == Has(p, "canopyHumidity") /\ p.canopyHumidity >= 70

\* the `items` array of calculateDiseaseRisks
DiseaseItems(p) ==
    LET t    == p.temperature
        rh   == Coalesce(p, "rh", "relativeHumidity", 0)
        rain == Coalesce(p, "weeklyRainfall", "rainfall", 0)
        lw   == Coalesce(p, "leafWetness", "wetnessHours", 0)
        w    == OrElse(p, "windSpeed", 0)
        sm0  == OrElse(p, "soilMoisture", 0)
    IN
    << [name |-> "Apple Scab",
        checks |-> << <<"Temperature 10-24C", t >= 10 /\ t <= 24>>,
                      <<"RH >85%", rh > 85>>,
                      <<"Rainfall >=5 mm", rain >= 5>>,
                      <<"Leaf wetness 9-12h", lw >= 9 /\ lw <= 12>>,
                      <<"Wind 5-15 km/h", w >= 5 /\ w <= 15>>,
                      <<"High canopy humidity (>=70%)", CanopyHigh(p)>> >>,
        meta |-> [wetMin |-> 9, wetMax |-> 12, windMin |-> 5, windMax |-> 15,
                  soilMin |-> 60, soilMax |-> 80]],
       [name |-> "Apple Leaf Blotch (Alternaria)",
        checks |-> << <<"Temperature 24-30C", t >= 24 /\ t <= 30>>,
                      <<"RH 80-95%", rh >= 80 /\ rh <= 95>>,
                      <<"Rainfall 15-40 mm/week", rain >= 15 /\ rain <= 40>>,
                      <<"Leaf wetness >=6h", lw >= 6>>,
                      <<"High canopy humidity (>=70%)", CanopyHigh(p)>> >>,
        meta |-> [wetMin |-> 6, wetMax |-> 24, windMin |-> 3, windMax |-> 20,
                  soilMin |-> 60, soilMax |-> 80]],
       [name |-> "Powdery Mildew",
        checks |-> << <<"Temperature 15-25C", t >= 15 /\ t <= 25>>,
                      <<"RH 60-85%", rh >= 60 /\ rh <= 85>>,
                      <<"Leaf wetness 0-2h", lw >= 0 /\ lw <= 2>>,
                      <<"Wind <6 km/h", w < 6>> >>,
        meta |-> [wetMin |-> 0, wetMax |-> 2, windMin |-> 0, windMax |-> 6,
                  soilMin |-> 50, soilMax |-> 70]],
       [name |-> "Brown Rot",
        checks |-> << <<"Temperature 20-30C", t >= 20 /\ t <= 30>>,
                      <<"RH >=85%", rh >= 85>>,
                      <<"Rainfall >=10 mm", rain >= 10>>,
                      <<"Wetness >=5h", lw >= 5>> >>,
        meta |-> [wetMin |-> 5, wetMax |-> 24, windMin |-> 3, windMax |-> 20,
                  soilMin |-> 60, soilMax |-> 80]],
       [name |-> "Bull's[U+2011]eye Rot",
        checks |-> << <<"Temperature 15-22C", t >= 15 /\ t <= 22>>,
                      <<"RH 85-95%", rh >= 85 /\ rh <= 95>>,
                      <<"Rainfall 20-50 mm", rain >= 20 /\ rain <= 50>>,
                      <<"Leaf/Fruit wetness >=8h", lw >= 8>> >>,
        meta |-> [wetMin |-> 8, wetMax |-> 24, windMin |-> 0, windMax |-> 12,
                  soilMin |-> 60, soilMax |-> 80]],
       [name |-> "Sooty Blotch",
        checks |-> << <<"Temperature 20-28C", t >= 20 /\ t <= 28>>,
                      <<"RH >=90%", rh >= 90>>,
                      <<"Rainfall >=30 mm/month (approx week>=7)", rain >= 7>>,
                      <<"Leaf wetness >=12h", lw >= 12>> >>,
        meta |-> [wetMin |-> 12, wetMax |-> 48, windMin |-> 0, windMax |-> 15,
                  soilMin |-> 70, soilMax |-> 90]],
       [name |-> "Flyspeck",
        checks |-> << <<"Temperature 18-26C", t >= 18 /\ t <= 26>>,
                      <<"RH 90-98%", rh >= 90 /\ rh <= 98>>,
                      <<"Frequent light rains (>=3 days/week) approximated as rain>=3",
                        rain >= 3>>,
                      <<"Leaf wetness >=15h", lw >= 15>> >>,
        meta |-> [wetMin |-> 15, wetMax |-> 48, windMin |-> 0, windMax |-> 15,
                  soilMin |-> 70, soilMax |-> 90]],
       [name |-> "Collar / Root Rot",
        checks |-> << <<"Soil Temp 15-28C (approx)", t >= 15 /\ t <= 28>>,
                      <<"Soil moisture >=85%", sm0 >= 85>>,
                      <<"Rainfall >=40 mm/week", rain >= 40>> >>,
        meta |-> [soilMin |-> 85, soilMax |-> 100, rainMin |-> 40,
                  drainage |-> "poor", windMin |-> 0, windMax |-> 20]],
       [name |-> "Necrotic Leaf Blotch (physiological)",
        checks |-> << <<"RH <40% OR >90%", rh < 40 \/ rh > 90>>,
                      <<"Soil moisture swing <40% then >80% (approx ignored)", FALSE>>,
                      <<"Hot & dry wind >15 km/h", w > 15>> >>,
        meta |-> [soilMin |-> 0, soilMax |-> 40, windMin |-> 15, windMax |-> 100,
                  rainMin |-> 20, wetMin |-> 2, wetMax |-> 24]] >>

\* the `items` array of calculatePestRisks
PestItems(p) ==
    LET t    == p.temperature
        rh   == Coalesce(p, "rh", "relativeHumidity", 0)
        rain == Coalesce(p, "weeklyRainfall", "rainfall", 0)
        lw   == Coalesce(p, "leafWetness", "wetnessHours", 0)
        w    == OrElse(p, "windSpeed", 0)
        sm0  == OrElse(p, "soilMoisture", 0)
        dustHigh  == Has(p, "dustLevel") /\ p.dustLevel = "high"
        drainGood == Has(p, "drainage") /\ p.drainage = "good"
    IN
    << [name |-> "Fruit Fly",
        checks |-> << <<"Temperature 22-35C", t >= 22 /\ t <= 35>>,
                      <<"RH 70-95%", rh >= 70 /\ rh <= 95>>,
                      <<"Rainfall 20-60 mm/week", rain >= 20 /\ rain <= 60>>,
                      <<"Wind <12 km/h", w < 12>>,
                      <<"Soil moisture >70%", sm0 > 70>> >>,
        meta |-> [windMin |-> 0, windMax |-> 12, soilMin |-> 70, soilMax |-> 100,
                  canopyMin |-> 70]],
       [name |-> "Tent Caterpillar",
        checks |-> << <<"Temperature 18-30C", t >= 18 /\ t <= 30>>,
                      <<"RH 45-65%", rh >= 45 /\ rh <= 65>>,
                      <<"Rainfall <20 mm/week", rain < 20>>,
                      <<"Wind <10 km/h", w < 10>> >>,
        meta |-> [windMin |-> 0, windMax |-> 10, wetMin |-> 2, wetMax |-> 10,
                  soilMin |-> 50, soilMax |-> 70]],
       [name |-> "Fruit Borer",
        checks |-> << <<"Temperature 20-32C", t >= 20 /\ t <= 32>>,
                      <<"RH 60-80%", rh >= 60 /\ rh <= 80>>,
                      <<"Rainfall 10-30 mm/week", rain >= 10 /\ rain <= 30>>,
                      <<"Wind <10 km/h", w < 10>> >>,
        meta |-> [windMin |-> 0, windMax |-> 10, wetMin |-> 4, wetMax |-> 12,
                  soilMin |-> 60, soilMax |-> 80]],
       [name |-> "European Red Mite",
        checks |-> << <<"Temperature 26-38C", t >= 26 /\ t <= 38>>,
                      <<"RH 30-55%", rh >= 30 /\ rh <= 55>>,
                      <<"Rainfall <10 mm/week", rain < 10>>,
                      <<"Wind <8 km/h", w < 8>>,
                      <<"Dust level high", dustHigh>> >>,
        meta |-> [windMin |-> 0, windMax |-> 8, wetMin |-> 0, wetMax |-> 4,
                  soilMin |-> 40, soilMax |-> 70, dustLevel |-> "high"]],
       [name |-> "San Jos[U+00E9] Scale",
        checks |-> << <<"Temperature 22-32C", t >= 22 /\ t <= 32>>,
                      <<"RH 50-70%", rh >= 50 /\ rh <= 70>>,
                      <<"Rainfall <20 mm/week", rain < 20>>,
                      <<"Wind <8 km/h", w < 8>>,
                      <<"Soil moisture 60-70% AND drainage good",
                        sm0 >= 60 /\ sm0 <= 70 /\ drainGood>> >>,
        meta |-> [windMin |-> 0, windMax |-> 8, soilMin |-> 60, soilMax |-> 70,
                  wetMin |-> 0, wetMax |-> 6]],
       [name |-> "Leaf Miner",
        checks |-> << <<"Temperature 20-30C", t >= 20 /\ t <= 30>>,
                      <<"RH 40-65%", rh >= 40 /\ rh <= 65>>,
                      <<"Rainfall <15 mm/week", rain < 15>>,
                      <<"Wind <6 km/h", w < 6>>,
                      <<"Leaf wetness <4h", lw < 4>> >>,
        meta |-> [windMin |-> 0, windMax |-> 6, wetMin |-> 0, wetMax |-> 4,
                  soilMin |-> 50, soilMax |-> 70]],
       [name |-> "Woolly Apple Aphid",
        checks |-> << <<"Temperature 15-25C", t >= 15 /\ t <= 25>>,
                      <<"RH 65-85%", rh >= 65 /\ rh <= 85>>,
                      <<"Rainfall 10-25 mm/week", rain >= 10 /\ rain <= 25>>,
                      <<"Wind <10 km/h", w < 10>>,
                      <<"Soil moisture 65-80%", sm0 >= 65 /\ sm0 <= 80>>,
                      <<"High canopy humidity (>=70%)", CanopyHigh(p)>> >>,
        meta |-> [windMin |-> 0, windMax |-> 10, wetMin |-> 2, wetMax |-> 8,
                  soilMin |-> 65, soilMax |-> 80]],
       [name |-> "Green Apple Aphid",
        checks |-> << <<"Temperature 14-24C", t >= 14 /\ t <= 24>>,
                      <<"RH 55-75%", rh >= 55 /\ rh <= 75>>,
                      <<"Rainfall >20 mm/week", rain > 20>>,
                      <<"Wind <8 km/h", w < 8>>,
                      <<"High canopy humidity (>=70%)", CanopyHigh(p)>> >>,
        meta |-> [windMin |-> 0, windMax |-> 8, wetMin |-> 2, wetMax |-> 8,
                  soilMin |-> 60, soilMax |-> 80]] >>

(***************************************************************************)
(* climateRiskRules.ts: scoring, weighting, ranking                        *)
(***************************************************************************)
\* faulty variant: a reading without `mode` scored by the meta ranges
ModeOfDefaultMeta(p) == OrElse(p, "mode", "meta")


\* params.mode ?? 'standard'
ModeOf(p) == OrElse(p, "mode", "standard")

\* faulty variant: every catalog entry's meta taken to declare the README's
\* temperature range 15-25 and humidity floor 85
ScoreItemDeclaredClimate(item, p) ==
    IF ModeOf(p) = "meta"
    THEN IF item.meta = NoMeta THEN scoreFromMeta(item.name, item.meta, p)
         ELSE scoreFromMeta(item.name,
                  [f \in DOMAIN item.meta \cup {"tempMin", "tempMax", "rhMin"} |->
                      CASE f = "tempMin" -> 15 [] f = "tempMax" -> 25 [] f = "rhMin" -> 85
                        [] OTHER -> item.meta[f]], p)
    ELSE scoreStandardItem(item, p)


\* mode === 'meta' ? scoreFromMeta(...) : scoreStandardItem(...)
ScoreItem(item, p) ==
    IF ModeOf(p) = "meta" THEN scoreFromMeta(item.name, item.meta, p)
    ELSE scoreStandardItem(item, p)

\* Array.prototype.sort((a, b) => b.score - a.score): descending by score and
\* stable (ECMAScript 2019), built by inserting each element, in array order,
\* behind every element already placed whose score is not smaller.
\* faulty variant: an unstable sort that places an element before its equals
RECURSIVE InsertBeforeEquals(_, _)
InsertBeforeEquals(sorted, x) ==
    IF sorted = <<>> THEN <<x>>
    ELSE IF Head(sorted).score > x.score
         THEN <<Head(sorted)>> \o InsertBeforeEquals(Tail(sorted), x)
         ELSE <<x>> \o sorted

RECURSIVE InsertByScore(_, _)
InsertByScore(sorted, x) ==
    IF sorted = <<>> THEN <<x>>
    ELSE IF Head(sorted).score >= x.score
         THEN <<Head(sorted)>> \o InsertByScore(Tail(sorted), x)
         ELSE <<x>> \o sorted

RECURSIVE SortFrom(_, _)
SortFrom(sorted, rest) ==
    IF rest = <<>> THEN sorted
    ELSE SortFrom(InsertByScore(sorted, Head(rest)), Tail(rest))

SortByScoreDesc(list) == SortFrom(<<>>, list)

\* faulty variant: the level taken from the raw score instead of the weighted one
DiseaseResultLevelOfRaw(item, p) ==
    LET sc == ScoreItem(item, p)
        weightedScore == applyDiseaseWeight(item.name, sc.score)
    IN  [name |-> item.name, category |-> "Disease", score |-> weightedScore,
         level |-> levelFor(sc.score), matchedFactors |-> sc.matchedFactors]

\* the callback of items.map in calculateDiseaseRisks
DiseaseResult(item, p) ==
    LET sc == ScoreItem(item, p)
        weightedScore == applyDiseaseWeight(item.name, sc.score)
    IN  [name |-> item.name, category |-> "Disease", score |-> weightedScore,
         level |-> levelFor(weightedScore), matchedFactors |-> sc.matchedFactors]

\* the callback of items.map in calculatePestRisks
PestResult(item, p) ==
    LET sc == ScoreItem(item, p)
    IN  [name |-> item.name, category |-> "Pest", score |-> sc.score,
         level |-> levelFor(sc.score), matchedFactors |-> sc.matchedFactors]

\* faulty variant: the mapped entries returned without the sort
calculateDiseaseRisksUnsorted(p) ==
    LET items == DiseaseItems(p)
    IN  [i \in 1..Len(items) |-> DiseaseResult(items[i], p)]


calculateDiseaseRisks(p) ==
    LET items == DiseaseItems(p)
    IN  SortByScoreDesc([i \in 1..Len(items) |-> DiseaseResult(items[i], p)])

\* faulty variant: the entries that scored nothing filtered out of the list
calculatePestRisksScoredOnly(p) ==
    LET items == PestItems(p)
    IN  SortByScoreDesc(SelectSeq([i \in 1..Len(items) |-> PestResult(items[i], p)],
                                  LAMBDA r : r.score > 0))


calculatePestRisks(p) ==
    LET items == PestItems(p)
    IN  SortByScoreDesc([i \in 1..Len(items) |-> PestResult(items[i], p)])

(***************************************************************************)
(* part_007 (planet-aoi function): analyzeRisk                             *)
(***************************************************************************)
\* Each factor's branch: the points it adds to riskScore and the risk flag
\* it leaves in `factors`; a missing value keeps the initial flag 'low'.
\* faulty variant: the wider band tested with `if` instead of `else if`, so a
\* temperature inside the narrow band collects both awards
TemperatureFactorBothBands(c) ==
    IF ~Has(c, "temperature") THEN [points |-> 0, risk |-> "low"]
    ELSE IF c.temperature >= 15 /\ c.temperature <= 25
         THEN [points |-> 25 + 15, risk |-> "medium"]
    ELSE IF c.temperature >= 12 /\ c.temperature <= 28
         THEN [points |-> 15, risk |-> "medium"]
    ELSE [points |-> 0, risk |-> "low"]

TemperatureFactor(c) ==
    IF ~Has(c, "temperature") THEN [points |-> 0, risk |-> "low"]
    ELSE IF c.temperature >= 15 /\ c.temperature <= 25
         THEN [points |-> 25, risk |-> "high"]
    ELSE IF c.temperature >= 12 /\ c.temperature <= 28
         THEN [points |-> 15, risk |-> "medium"]
    ELSE [points |-> 0, risk |-> "low"]

HumidityFactor(c) ==
    IF ~Has(c, "relativeHumidity") THEN [points |-> 0, risk |-> "low"]
    ELSE IF c.relativeHumidity >= 85 THEN [points |-> 25, risk |-> "high"]
    ELSE IF c.relativeHumidity >= 70 THEN [points |-> 15, risk |-> "medium"]
    ELSE [points |-> 0, risk |-> "low"]

\* faulty variant: the 25-point band starting at 16 hours of wetness
WetnessFactorHighFrom16(c) ==
    IF ~Has(c, "wetnessHours") THEN [points |-> 0, risk |-> "low"]
    ELSE IF c.wetnessHours >= 16 THEN [points |-> 25, risk |-> "high"]
    ELSE IF c.wetnessHours >= 8 THEN [points |-> 15, risk |-> "medium"]
    ELSE [points |-> 0, risk |-> "low"]


WetnessFactor(c) ==
    IF ~Has(c, "wetnessHours") THEN [points |-> 0, risk |-> "low"]
    ELSE IF c.wetnessHours >= 12 THEN [points |-> 25, risk |-> "high"]
    ELSE IF c.wetnessHours >= 8 THEN [points |-> 15, risk |-> "medium"]
    ELSE [points |-> 0, risk |-> "low"]

\* faulty variant: the upper band edge taken from the source comment
\* ("optimal: 50-70%") instead of the condition
SoilMoistureFactorTo70(c) ==
    IF ~Has(c, "soilMoisture") THEN [points |-> 0, risk |-> "low"]
    ELSE IF c.soilMoisture >= 50 /\ c.soilMoisture <= 70
         THEN [points |-> 15, risk |-> "medium"]
    ELSE IF c.soilMoisture >= 40 /\ c.soilMoisture <= 90
         THEN [points |-> 10, risk |-> "low"]
    ELSE [points |-> 0, risk |-> "low"]

SoilMoistureFactor(c) ==
    IF ~Has(c, "soilMoisture") THEN [points |-> 0, risk |-> "low"]
    ELSE IF c.soilMoisture >= 50 /\ c.soilMoisture <= 80
         THEN [points |-> 15, risk |-> "medium"]
    ELSE IF c.soilMoisture >= 40 /\ c.soilMoisture <= 90
         THEN [points |-> 10, risk |-> "low"]
    ELSE [points |-> 0, risk |-> "low"]

\* faulty variant: the intermediate rainfall band adds its points but leaves
\* the flag at 'low'
RainfallFactorFlagLeftLow(c) ==
    IF ~Has(c, "rainfall") THEN [points |-> 0, risk |-> "low"]
    ELSE IF c.rainfall >= 20 THEN [points |-> 10, risk |-> "high"]
    ELSE IF c.rainfall >= 10 THEN [points |-> 5, risk |-> "low"]
    ELSE [points |-> 0, risk |-> "low"]


RainfallFactor(c) ==
    IF ~Has(c, "rainfall") THEN [points |-> 0, risk |-> "low"]
    ELSE IF c.rainfall >= 20 THEN [points |-> 10, risk |-> "high"]
    ELSE IF c.rainfall >= 10 THEN [points |-> 5, risk |-> "medium"]
    ELSE [points |-> 0, risk |-> "low"]

\* faulty variant: the riskLevel chain with strict comparisons
RiskLevelOfStrict(riskScore) ==
    IF riskScore > 80 THEN "critical"
    ELSE IF riskScore > 60 THEN "high"
    ELSE IF riskScore > 40 THEN "medium"
    ELSE "low"


\* the riskLevel chain
RiskLevelOf(riskScore) ==
    IF riskScore >= 80 THEN "critical"
    ELSE IF riskScore >= 60 THEN "high"
    ELSE IF riskScore >= 40 THEN "medium"
    ELSE "low"

\* climate.f as stored in factors.*.value: <<v>>, or <<>> for undefined
ValueOf(c, f) == IF Has(c, f) THEN <<c[f]>> ELSE <<>>

\* faulty variant: the soil-moisture push gated on 'high', a flag the soil
\* branch never sets
RecommendationStepsSoilHigh(factors, riskLevel) ==
    << <<"Temperature is optimal for disease spread - monitor closely",
         factors.temperature.risk = "high">>,
       <<"High humidity detected - increase air circulation",
         factors.humidity.risk = "high">>,
       <<"Extended leaf wetness period - apply fungicide if needed",
         factors.wetness.risk = "high">>,
       <<"Soil moisture favorable for pathogen survival - adjust irrigation",
         factors.soilMoisture.risk = "high">>,
       <<"Consider preventive fungicide application",
         riskLevel = "critical" \/ riskLevel = "high">> >>


\* the five conditional pushes onto `recommendations`, in source order
RecommendationSteps(factors, riskLevel) ==
    << <<"Temperature is optimal for disease spread - monitor closely",
         factors.temperature.risk = "high">>,
       <<"High humidity detected - increase air circulation",
         factors.humidity.risk = "high">>,
       <<"Extended leaf wetness period - apply fungicide if needed",
         factors.wetness.risk = "high">>,
       <<"Soil moisture favorable for pathogen survival - adjust irrigation",
         factors.soilMoisture.risk = "medium">>,
       <<"Consider preventive fungicide application",
         riskLevel = "critical" \/ riskLevel = "high">> >>

FallbackRecommendation == "Risk level is low - continue normal management"

analyzeRisk(c) ==
    LET tf == TemperatureFactor(c)
        hf == HumidityFactor(c)
        wf == WetnessFactor(c)
        sf == SoilMoistureFactor(c)
        rf == RainfallFactor(c)
        riskScore == tf.points + hf.points + wf.points + sf.points + rf.points
        riskLevel == RiskLevelOf(riskScore)
        factors ==
            [temperature  |-> [value |-> ValueOf(c, "temperature"), risk |-> tf.risk],
             humidity     |-> [value |-> ValueOf(c, "relativeHumidity"), risk |-> hf.risk],
             wetness      |-> [value |-> ValueOf(c, "wetnessHours"), risk |-> wf.risk],
             soilMoisture |-> [value |-> ValueOf(c, "soilMoisture"), risk |-> sf.risk],
             rainfall     |-> [value |-> ValueOf(c, "rainfall"), risk |-> rf.risk]]
        recommendations == MatchedLabels(RecommendationSteps(factors, riskLevel))
    IN  [riskLevel |-> riskLevel,
         riskScore |-> riskScore,
         factors |-> factors,
         recommendations |-> IF Len(recommendations) > 0 THEN recommendations
                             ELSE <<FallbackRecommendation>>]

(***************************************************************************)
(* ClimateRiskPredictor.tsx: the form, handlePredict and the health score  *)
(***************************************************************************)
\* useState of viewParams
InitialViewParams ==
    [temperature |-> 20, rh |-> 75, weeklyRainfall |-> 10, leafWetness |-> 4,
     windSpeed |-> 5, soilMoisture |-> 50, canopyHumidity |-> 75,
     dustLevel |-> "unknown", drainage |-> "unknown",
     hasStandingWater48h |-> FALSE, hasTempJump10C |-> FALSE,
     hadDroughtThenHeavyRain |-> FALSE]

\* a comparison with an undefined operand is false
Above(p, f, n) == Has(p, f) /\ p[f] > n
Below(p, f, n) == Has(p, f) /\ p[f] < n

Max(a, b) == IF a > b THEN a ELSE b

\* Math.round of n / 2 for n >= 0: a half rounds up
RoundHalf(n) == (n + 1) \div 2

\* the climate part of calculateFarmHealth: 50 less the penalties, floored at 0
ClimateScore(climateParams) ==
    Max(0, 50
        - (IF Below(climateParams, "temperature", 15)
              \/ Above(climateParams, "temperature", 28) THEN 8 ELSE 0)
        - (IF Above(climateParams, "rh", 85) THEN 10 ELSE 0)
        - (IF Above(climateParams, "weeklyRainfall", 30) THEN 8 ELSE 0)
        - (IF Above(climateParams, "leafWetness", 12) THEN 7 ELSE 0)
        - (IF Below(climateParams, "windSpeed", 2) THEN 5 ELSE 0)
        - (IF Truthy(climateParams, "hasStandingWater48h") THEN 10 ELSE 0)
        - (IF Truthy(climateParams, "hasTempJump10C") THEN 8 ELSE 0)
        - (IF Truthy(climateParams, "hadDroughtThenHeavyRain") THEN 9 ELSE 0))

\* diseaseResults.filter(d => d.level === level).length
CountLevel(diseaseResults, level) ==
    Cardinality({i \in 1..Len(diseaseResults) : diseaseResults[i].level = level})

\* the disease part of calculateFarmHealth, clamped to 0..50
DiseaseScore(diseaseResults) ==
    LET highRiskCount == CountLevel(diseaseResults, "High")
        mediumRiskCount == CountLevel(diseaseResults, "Medium")
        lowRiskCount == CountLevel(diseaseResults, "Low")
        highPenalty == highRiskCount * 15
        mediumPenalty == mediumRiskCount * 8
        lowPenalty == IF lowRiskCount >= 9 THEN lowRiskCount * 3 ELSE 0
        totalDiseases == highRiskCount + mediumRiskCount + lowRiskCount
        penalised == 50 - (highPenalty + mediumPenalty + lowPenalty)
        diseaseScore ==
            IF Len(diseaseResults) > 0
            THEN IF totalDiseases <= 2 /\ highRiskCount = 0
                 THEN penalised + 10 ELSE penalised
            ELSE 50
    IN  Max(0, Min(50, diseaseScore))

\* the value calculateFarmHealth returns and stores with setFarmHealthScore
calculateFarmHealth(climateParams, diseaseResults) ==
    RoundHalf(ClimateScore(climateParams) + DiseaseScore(diseaseResults))

\* the paramsForRules object of handlePredict; the form's numeric values are
\* numbers already (every handleChange call site passes Number(...)), on
\* which Number is the identity, and its flags are booleans, on which !! is
ParamsForRules(vp, model) ==
    LET always ==
            [temperature |-> vp.temperature,
             rh |-> vp.rh, relativeHumidity |-> vp.rh,
             weeklyRainfall |-> vp.weeklyRainfall, rainfall |-> vp.weeklyRainfall,
             leafWetness |-> vp.leafWetness, wetnessHours |-> vp.leafWetness,
             windSpeed |-> vp.windSpeed,
             dustLevel |-> vp.dustLevel, drainage |-> vp.drainage,
             hasStandingWater48h |-> vp.hasStandingWater48h,
             hasTempJump10C |-> vp.hasTempJump10C,
             hadDroughtThenHeavyRain |-> vp.hadDroughtThenHeavyRain,
             mode |-> model]
        given == {f \in {"soilMoisture", "canopyHumidity"} : Has(vp, f)}
    IN  [f \in DOMAIN always \cup given |-> IF f \in given THEN vp[f] ELSE always[f]]

\* res.slice(0, n)
SliceFirst(res, n) == SubSeq(res, 1, Min(n, Len(res)))

(***************************************************************************)
(* planetService.ts: fetchPlanetInsights                                   *)
(***************************************************************************)
\* A parsed JSON body is [type |-> "null"], [type |-> "number", value |-> n]
\* or [type |-> "object", fields |-> r].  A request holds lat and lon in
\* degrees and, for each date string, what new Date(...) makes of it: the
\* day it falls on (getTime() in days) and, for the start, getMonth().

\* res.ok
ResponseOk(status) == status >= 200 /\ status <= 299

\* data && (data.temperature !== undefined || data.rainfall !== undefined
\*          || data.relativeHumidity !== undefined)
HasClimateFields(data) ==
    /\ data.type = "object"
    /\ \/ Has(data.fields, "temperature")
       \/ Has(data.fields, "rainfall")
       \/ Has(data.fields, "relativeHumidity")

\* Math.cos((lat * Math.PI) / 180), at the latitudes of the requests
CosLatitude(lat) == CASE lat = 0 -> 1 [] lat = 90 -> 0

\* Math.cos((month / 12) * Math.PI * 2 - (lat / 90) * Math.PI), at the
\* months and latitudes of the requests
SeasonFactor(month, lat) ==
    CASE month = 0 /\ lat = 0 -> 1
      [] month = 6 /\ lat = 0 -> -1
      [] month = 0 /\ lat = 90 -> -1
      [] month = 6 /\ lat = 90 -> 1

\* Math.abs(Math.sin((lon * Math.PI) / 180)), at the longitudes of the requests
AbsSinLongitude(lon) == CASE lon = 0 -> 0 [] lon = 90 -> 1

\* Math.abs(Math.sin((lat * Math.PI) / 90)): 0 up to rounding at 0 and 90
AbsSinTwiceLatitude(lat) == CASE lat = 0 -> 0 [] lat = 90 -> 0

\* Math.abs(Math.cos((lon * Math.PI) / 90)), at the longitudes of the requests
AbsCosTwiceLongitude(lon) == CASE lon = 0 -> 1 [] lon = 90 -> 1

\* Math.round of x / d for x >= 0
RoundDiv(x, d) == (2 * x + d) \div (2 * d)

\* The mock object.  temperature, rainfall and windSpeed are rounded to one
\* decimal by the code and are held here in tenths; the other fields are
\* whole numbers.
MockInsights(req) ==
    LET elapsed == req.endDate.day - req.startDate.day
        days == Max(1, elapsed)
        temperature == 150 + CosLatitude(req.lat) * 100
                           + SeasonFactor(req.startDate.month, req.lat) * 80
        rainfall == Max(0, AbsSinLongitude(req.lon) * 200 + days * 5)
        relativeHumidity == Min(95, 40 + AbsSinTwiceLatitude(req.lat) * 60)
        windSpeed == AbsCosTwiceLongitude(req.lon) * 150 + 20
        \* 10 + rainfall * 2 + relativeHumidity / 10, in tenths
        soilMoisture == RoundDiv(Min(1000, 100 + rainfall * 2 + relativeHumidity), 10)
        canopyHumidity == Min(100, relativeHumidity - 5)
        \* rainfall * 2 + relativeHumidity / 4, in hundredths
        wetnessHours == RoundDiv(Min(16800, rainfall * 20 + relativeHumidity * 25), 100)
    IN  [type |-> "object",
         fields |-> [_source |-> "mock", temperature |-> temperature,
                     rainfall |-> rainfall, relativeHumidity |-> relativeHumidity,
                     windSpeed |-> windSpeed, soilMoisture |-> soilMoisture,
                     canopyHumidity |-> canopyHumidity,
                     wetnessHours |-> wetnessHours]]

Pending == [state |-> "pending"]
Fulfilled(v) == [state |-> "fulfilled", value |-> v]
Rejected == [state |-> "rejected"]

\* faulty variant: res.json() awaited outside the try block, so a body that
\* does not parse rejects the returned promise
AfterJsonUncaught(body, req) ==
    IF body.parse = "fail" THEN Rejected
    ELSE IF HasClimateFields(body.data) THEN Fulfilled(body.data)
    ELSE Fulfilled(MockInsights(req))

\* what the function's promise becomes once res.json() has settled: a parse
\* failure is caught and falls through to the mock, as does a body without
\* climate fields
AfterJson(body, req) ==
    IF body.parse = "fail" THEN Fulfilled(MockInsights(req))
    ELSE IF HasClimateFields(body.data) THEN Fulfilled(body.data)
    ELSE Fulfilled(MockInsights(req))

(***************************************************************************)
(* Inputs of the rules engine                                              *)
(***************************************************************************)
\* how many single-field changes a reading may be away from a base reading
MaxEdits == 2

NumericValues(f) ==
    CASE f = "temperature" -> {5, 18, 24, 27}
      [] f \in {"relativeHumidity", "rh"} -> {0, 50, 86, 92}
      [] f \in {"rainfall", "weeklyRainfall"} -> {0, 8, 25, 45}
      [] f \in {"wetnessHours", "leafWetness"} -> {0, 3, 10, 16}
      [] f = "windSpeed" -> {0, 8, 30}
      [] f = "soilMoisture" -> {0, 65, 90}
      [] f = "canopyHumidity" -> {60, 75}

NumericFields ==
    {"temperature", "relativeHumidity", "rh", "rainfall", "weeklyRainfall",
     "wetnessHours", "leafWetness", "windSpeed", "soilMoisture", "canopyHumidity"}

FlagFields == {"hasStandingWater48h", "hasTempJump10C", "hadDroughtThenHeavyRain"}

OptionalFields ==
    (NumericFields \ {"temperature"}) \cup FlagFields \cup {"dustLevel", "drainage", "mode"}

\* every (field, value) a single change may set; "other" is a mode the type
\* ClimateParams does not list.  A flag set to false, a level set to 'unknown'
\* and the mode 'standard' are left to Omit: the code tests these fields only
\* for truthiness, === 'high' / 'poor' / 'good' and === 'meta'.
FieldSettings ==
    UNION {{<<f, v>> : v \in NumericValues(f)} : f \in NumericFields}
    \cup {<<f, TRUE>> : f \in FlagFields}
    \cup {<<"dustLevel", "high">>}
    \cup {<<"drainage", d>> : d \in {"good", "poor"}}
    \cup {<<"mode", m>> : m \in {"meta", "other"}}

SetField(p, f, v) == [g \in DOMAIN p \cup {f} |-> IF g = f THEN v ELSE p[g]]

Omit(p, f) == [g \in DOMAIN p \ {f} |-> p[g]]

\* base readings: the spec's scenarios 1 and 2, a reading with only the
\* required field, one with every optional field at its default, one that
\* favours the flag-scored item in meta mode, one under the legacy names and
\* one favouring the pests
BaseReadings ==
    { [temperature |-> 18, relativeHumidity |-> 90, rainfall |-> 8,
       wetnessHours |-> 10, windSpeed |-> 8, canopyHumidity |-> 75],
      [temperature |-> 5, relativeHumidity |-> 20, rainfall |-> 0,
       wetnessHours |-> 0, windSpeed |-> 30],
      [temperature |-> 22],
      [temperature |-> 22, relativeHumidity |-> 0, rainfall |-> 0,
       wetnessHours |-> 0, windSpeed |-> 0, soilMoisture |-> 0,
       canopyHumidity |-> 0, dustLevel |-> "unknown", drainage |-> "unknown",
       hasStandingWater48h |-> FALSE, hasTempJump10C |-> FALSE,
       hadDroughtThenHeavyRain |-> FALSE],
      [temperature |-> 27, mode |-> "meta", rainfall |-> 45, wetnessHours |-> 10,
       windSpeed |-> 18, soilMoisture |-> 30, dustLevel |-> "high",
       drainage |-> "poor", hasTempJump10C |-> TRUE,
       hadDroughtThenHeavyRain |-> TRUE],
      [temperature |-> 22, rh |-> 88, weeklyRainfall |-> 25, leafWetness |-> 12,
       windSpeed |-> 5, soilMoisture |-> 65],
      [temperature |-> 27, relativeHumidity |-> 50, rainfall |-> 5,
       wetnessHours |-> 2, windSpeed |-> 4, soilMoisture |-> 65,
       dustLevel |-> "high", drainage |-> "good"] }

\* the readings one change away from a reading of `rs`, and `rs` itself
OneEdit(rs) ==
    rs \cup {SetField(r, e[1], e[2]) : r \in rs, e \in FieldSettings}
       \cup {Omit(r, f) : r \in rs, f \in OptionalFields}

RECURSIVE ReadingsWithin(_)
ReadingsWithin(n) == IF n = 0 THEN BaseReadings ELSE OneEdit(ReadingsWithin(n - 1))

(***************************************************************************)
(* Inputs of analyzeRisk: every combination of a value on each side of     *)
(* each threshold, and of the value missing                                *)
(***************************************************************************)
ClimateValues(f) ==
    CASE f = "temperature" -> {11, 12, 14, 15, 20, 25, 26, 28, 29}
      [] f = "relativeHumidity" -> {69, 70, 84, 85, 90}
      [] f = "wetnessHours" -> {7, 8, 11, 12, 14}
      [] f = "soilMoisture" -> {39, 40, 49, 50, 65, 80, 81, 90, 91}
      [] f = "rainfall" -> {9, 10, 19, 20, 25}

ClimateFields ==
    {"temperature", "relativeHumidity", "wetnessHours", "soilMoisture", "rainfall"}

\* a field left out (<<>>) or given one of its values (<<v>>)
ClimateOptions(f) == {<<>>} \cup {<<v>> : v \in ClimateValues(f)}

\* the ClimateData record holding the fields that were given
MakeClimate(t, h, w, sm, r) ==
    LET o == [temperature |-> t, relativeHumidity |-> h, wetnessHours |-> w,
              soilMoisture |-> sm, rainfall |-> r]
    IN  [f \in {g \in ClimateFields : o[g] # <<>>} |-> o[f][1]]

\* all ClimateData records over the fields analyzeRisk reads
ClimateInputs ==
    {MakeClimate(t, h, w, sm, r) :
        t \in ClimateOptions("temperature"),
        h \in ClimateOptions("relativeHumidity"),
        w \in ClimateOptions("wetnessHours"),
        sm \in ClimateOptions("soilMoisture"),
        r \in ClimateOptions("rainfall")}

NoClimate == [none |-> TRUE]
NoAnalysis == [none |-> TRUE]
NoReading == [temperature |-> 22]
NoFetch == [none |-> TRUE]
NoRequest == [none |-> TRUE]

(***************************************************************************)
(* The rules engine: one call on one reading                               *)
(***************************************************************************)
Init ==
    /\ params \in ReadingsWithin(MaxEdits)
    /\ pc = "idle"
    /\ results = <<>>
    /\ climate = NoClimate
    /\ analysis = NoAnalysis
    /\ viewParams = InitialViewParams
    /\ view = "Diseases"
    /\ riskModel = "standard"
    /\ farmHealthScore = 85
    /\ isAutoFilling = FALSE
    /\ timers = <<>>
    /\ handler = NoRequest
    /\ planet = NoFetch

CallDiseaseRisks ==
    /\ pc = "idle"
    /\ results' = calculateDiseaseRisks(params)
    /\ pc' = "calculateDiseaseRisks"
    /\ UNCHANGED <<params, climate, analysis, ui, planet, handler>>

CallPestRisks ==
    /\ pc = "idle"
    /\ results' = calculatePestRisks(params)
    /\ pc' = "calculatePestRisks"
    /\ UNCHANGED <<params, climate, analysis, ui, planet, handler>>

Next == CallDiseaseRisks \/ CallPestRisks

Spec == Init /\ [][Next]_vars

(***************************************************************************)
(* The aggregate analyzer: one call on one ClimateData                     *)
(***************************************************************************)
InitAnalyze ==
    /\ climate \in ClimateInputs
    /\ pc = "idle"
    /\ analysis = NoAnalysis
    /\ params = NoReading
    /\ results = <<>>
    /\ viewParams = InitialViewParams
    /\ view = "Diseases"
    /\ riskModel = "standard"
    /\ farmHealthScore = 85
    /\ isAutoFilling = FALSE
    /\ timers = <<>>
    /\ handler = NoRequest
    /\ planet = NoFetch

CallAnalyzeRisk ==
    /\ pc = "idle"
    /\ analysis' = analyzeRisk(climate)
    /\ pc' = "analyzeRisk"
    /\ UNCHANGED <<climate, params, results, ui, planet, handler>>

NextAnalyze == CallAnalyzeRisk

SpecAnalyze == InitAnalyze /\ [][NextAnalyze]_vars

(***************************************************************************)
(* The predictor form: edits, then a prediction, then Clear                *)
(***************************************************************************)
\* the values the form's inputs are set to: each side of the thresholds of
\* calculateFarmHealth, and wind and soil-moisture values outside the
\* catalog's ranges
FormValues(f) ==
    CASE f = "temperature" -> {10, 20}
      [] f = "rh" -> {75, 90}
      [] f = "weeklyRainfall" -> {10, 35}
      [] f = "leafWetness" -> {4, 14}
      [] f = "windSpeed" -> {1, 5, 30}
      [] f = "soilMoisture" -> {30, 45, 50}
      [] OTHER -> {TRUE, FALSE}

FormFields ==
    {"temperature", "rh", "weeklyRainfall", "leafWetness", "windSpeed", "soilMoisture"}
    \cup FlagFields

InitPredict ==
    /\ viewParams = InitialViewParams
    /\ view = "Diseases"
    /\ riskModel = "standard"
    /\ results = <<>>
    /\ farmHealthScore = 85
    /\ isAutoFilling = FALSE
    /\ timers = <<>>
    /\ handler = NoRequest
    /\ planet = NoFetch
    /\ pc = "idle"
    /\ params = NoReading
    /\ climate = NoClimate
    /\ analysis = NoAnalysis

\* handleChange(k, value); the form is edited while no prediction is shown,
\* which bounds the sessions to edit - predict - clear rounds
HandleChange ==
    /\ pc = "idle"
    /\ \E k \in FormFields : \E value \in FormValues(k) :
          viewParams' = SetField(viewParams, k, value)
    /\ UNCHANGED <<params, pc, results, climate, analysis, view, riskModel,
                   farmHealthScore, planet, isAutoFilling, timers, handler>>

\* the Diseases / Pests buttons
SetView ==
    /\ pc = "idle"
    /\ \E v \in {"Diseases", "Pests"} : view' = v
    /\ UNCHANGED <<params, pc, results, climate, analysis, viewParams, riskModel,
                   farmHealthScore, planet, isAutoFilling, timers, handler>>

\* the Risk Model select
SetRiskModel ==
    /\ pc = "idle"
    /\ \E m \in {"standard", "meta"} : riskModel' = m
    /\ UNCHANGED <<params, pc, results, climate, analysis, viewParams, view,
                   farmHealthScore, planet, isAutoFilling, timers, handler>>

\* handlePredict, behind the Predict button (disabled={isAutoFilling});
\* `params` keeps the paramsForRules it passed on
HandlePredict ==
    /\ pc = "idle"
    /\ ~isAutoFilling
    /\ LET paramsForRules == ParamsForRules(viewParams, riskModel)
           res == IF view = "Diseases" THEN calculateDiseaseRisks(paramsForRules)
                  ELSE calculatePestRisks(paramsForRules)
           resultsSliced == SliceFirst(res, 10)
       IN  /\ params' = paramsForRules
           /\ results' = resultsSliced
           /\ farmHealthScore' = calculateFarmHealth(paramsForRules, resultsSliced)
    /\ pc' = "handlePredict"
    /\ UNCHANGED <<climate, analysis, viewParams, view, riskModel, planet,
                   isAutoFilling, timers, handler>>

\* the Clear button; paramsForRules, a local of handlePredict, is gone
ClearResults ==
    /\ results' = <<>>
    /\ farmHealthScore' = 85
    /\ pc' = "idle"
    /\ params' = NoReading
    /\ UNCHANGED <<climate, analysis, viewParams, view, riskModel, planet,
                   isAutoFilling, timers, handler>>

NextPredict == HandleChange \/ SetView \/ SetRiskModel \/ HandlePredict \/ ClearResults

SpecPredict == InitPredict /\ [][NextPredict]_vars

(***************************************************************************)
(* The predictor under auto-fill: handlePlanetAutoFill calls, their        *)
(* 300 ms timers, Predict and Clear, in every interleaving                 *)
(***************************************************************************)
\* how many auto-predictions may be pending at once
MaxPending == 2

\* the climate PlanetMapViewer hands to onAutoFill: a warm wet week, a cold
\* dry windy one, a mild one
AutoFillData ==
    { [temperature |-> 20, rh |-> 90, weeklyRainfall |-> 35, leafWetness |-> 14,
       windSpeed |-> 5, soilMoisture |-> 50, canopyHumidity |-> 75],
      [temperature |-> 10, rh |-> 75, weeklyRainfall |-> 10, leafWetness |-> 4,
       windSpeed |-> 30, soilMoisture |-> 45, canopyHumidity |-> 60],
      [temperature |-> 20, rh |-> 75, weeklyRainfall |-> 10, leafWetness |-> 14,
       windSpeed |-> 1, soilMoisture |-> 30, canopyHumidity |-> 60] }

\* { ...p, ...q }
Spread(p, q) == [f \in DOMAIN p \cup DOMAIN q |-> IF f \in DOMAIN q THEN q[f] ELSE p[f]]

\* handlePlanetAutoFill(data): raises the flag, merges the data into the
\* form and schedules the auto-prediction; the callback's closure holds the
\* data and the viewParams, riskModel and view of the render that made it
HandlePlanetAutoFill ==
    /\ Len(timers) < MaxPending
    /\ \E data \in AutoFillData :
          /\ viewParams' = Spread(viewParams, data)
          /\ timers' = Append(timers, [params |-> data, viewParams |-> viewParams,
                                       riskModel |-> riskModel, view |-> view])
    /\ isAutoFilling' = TRUE
    /\ pc' = "handlePlanetAutoFill"
    /\ UNCHANGED <<params, results, climate, analysis, view, riskModel,
                   farmHealthScore, planet, handler>>

\* the callback of setTimeout(..., 300): timers of one delay run in the
\* order they were set, so the oldest pending one runs
AutoPredict ==
    /\ timers # <<>>
    /\ LET timer == Head(timers)
           updatedParams == Spread(timer.viewParams, timer.params)
           paramsForRules == ParamsForRules(updatedParams, timer.riskModel)
           res == IF timer.view = "Diseases" THEN calculateDiseaseRisks(paramsForRules)
                  ELSE calculatePestRisks(paramsForRules)
           resultsSliced == SliceFirst(res, 10)
       IN  /\ params' = paramsForRules
           /\ results' = resultsSliced
           /\ farmHealthScore' = calculateFarmHealth(paramsForRules, resultsSliced)
    /\ isAutoFilling' = FALSE
    /\ timers' = Tail(timers)
    /\ pc' = "autoPredict"
    /\ UNCHANGED <<climate, analysis, viewParams, view, riskModel, planet, handler>>

NextAutoFill ==
    \/ HandlePlanetAutoFill
    \/ AutoPredict
    \/ SetView
    \/ SetRiskModel
    \/ HandlePredict
    \/ ClearResults

SpecAutoFill == InitPredict /\ [][NextAutoFill]_vars

(***************************************************************************)
(* One call of fetchPlanetInsights against one backend behaviour           *)
(***************************************************************************)
PlanetRequests ==
    [lat : {0, 90}, lon : {0, 90},
     startDate : [day : {100}, month : {0, 6}],
     endDate : [day : {93, 100, 114}]]

\* the bodies res.json() is asked to parse
ResponseBodies ==
    {[parse |-> "fail"]}
    \cup {[parse |-> "ok", data |-> d] :
            d \in {[type |-> "null"],
                   [type |-> "number", value |-> 0],
                   [type |-> "number", value |-> 5],
                   [type |-> "object", fields |-> [error |-> 1]],
                   [type |-> "object", fields |-> [windSpeed |-> 4, soilMoisture |-> 30]],
                   [type |-> "object", fields |-> [temperature |-> 21]],
                   [type |-> "object", fields |-> [rainfall |-> 0]],
                   [type |-> "object", fields |-> [relativeHumidity |-> 60]],
                   [type |-> "object",
                    fields |-> [temperature |-> 21, rainfall |-> 3,
                                relativeHumidity |-> 60, windSpeed |-> 4]]}}

\* what the backend does: fetch rejects, or a response with a status, a body
\* and a res.text() that may reject
BackendBehaviours ==
    {[net |-> "error"]}
    \cup [net : {"ok"}, status : {200, 204, 401, 500}, body : ResponseBodies,
          textRejects : BOOLEAN]

InitPlanet ==
    /\ planet \in [req : PlanetRequests, backend : BackendBehaviours,
                   promise : {Pending}]
    /\ pc = "idle"
    /\ params = NoReading
    /\ results = <<>>
    /\ climate = NoClimate
    /\ analysis = NoAnalysis
    /\ viewParams = InitialViewParams
    /\ view = "Diseases"
    /\ riskModel = "standard"
    /\ farmHealthScore = 85
    /\ isAutoFilling = FALSE
    /\ timers = <<>>
    /\ handler = NoRequest

\* the call: the request is posted and the function waits for fetch
CallFetchPlanetInsights ==
    /\ pc = "idle"
    /\ pc' = "await fetch"
    /\ UNCHANGED <<params, results, climate, analysis, ui, planet, handler>>

\* fetch rejects: the catch block logs, and the mock is returned
FetchRejects ==
    /\ pc = "await fetch"
    /\ planet.backend.net = "error"
    /\ planet' = [planet EXCEPT !.promise = Fulfilled(MockInsights(planet.req))]
    /\ pc' = "fetchPlanetInsights"
    /\ UNCHANGED <<params, results, climate, analysis, ui, handler>>

\* fetch resolves with res.ok: the function waits for res.json()
FetchResolvesOk ==
    /\ pc = "await fetch"
    /\ planet.backend.net = "ok"
    /\ ResponseOk(planet.backend.status)
    /\ pc' = "await res.json"
    /\ UNCHANGED <<params, results, climate, analysis, ui, planet, handler>>

\* fetch resolves without res.ok: the function waits for
\* res.text().catch(() => '')
FetchResolvesNotOk ==
    /\ pc = "await fetch"
    /\ planet.backend.net = "ok"
    /\ ~ResponseOk(planet.backend.status)
    /\ pc' = "await res.text"
    /\ UNCHANGED <<params, results, climate, analysis, ui, planet, handler>>

\* res.json() settles
JsonSettles ==
    /\ pc = "await res.json"
    /\ planet' = [planet EXCEPT !.promise = AfterJson(planet.backend.body, planet.req)]
    /\ pc' = "fetchPlanetInsights"
    /\ UNCHANGED <<params, results, climate, analysis, ui, handler>>

\* res.text() settles, its rejection replaced by '': the failure is logged
\* and the mock is returned
TextSettles ==
    /\ pc = "await res.text"
    /\ planet' = [planet EXCEPT !.promise = Fulfilled(MockInsights(planet.req))]
    /\ pc' = "fetchPlanetInsights"
    /\ UNCHANGED <<params, results, climate, analysis, ui, handler>>

NextPlanet ==
    \/ CallFetchPlanetInsights
    \/ FetchRejects
    \/ FetchResolvesOk
    \/ FetchResolvesNotOk
    \/ JsonSettles
    \/ TextSettles

SpecPlanet == InitPlanet /\ [][NextPlanet]_vars

(***************************************************************************)
(* part_007 (planet-aoi function): the request handler                     *)
(***************************************************************************)
\* A request body is [kind |-> "unparseable"], or what req.json() gives:
\* [kind |-> "null"], [kind |-> "number"] or [kind |-> "object", fields |-> r].
\* Coordinates are [point |-> <<lon, lat>>], [line |-> <<pair, ...>>] or
\* [rings |-> << <<pair, ...>>, ... >>].

RECURSIVE SumOf(_)
SumOf(arr) == IF arr = <<>> THEN 0 ELSE Head(arr) + SumOf(Tail(arr))

RECURSIVE SumAt(_, _)
SumAt(coords, k) == IF coords = <<>> THEN 0 ELSE Head(coords)[k] + SumAt(Tail(coords), k)

\* getAOICenter: [lon, lat] of a Point, else the sums over the line or the
\* first ring with their count (the quotient sum / count is left undivided);
\* a thrown TypeError when the first ring of a Polygon is undefined
getAOICenter(geometry) ==
    LET coords == geometry.coordinates
    IN  IF geometry.type = "Point"
        THEN [sumLon |-> coords.point[1], sumLat |-> coords.point[2], count |-> 1]
        ELSE IF geometry.type = "Polygon" /\ coords.rings = <<>>
        THEN [throws |-> "TypeError"]
        ELSE LET flatCoords == IF geometry.type = "Polygon" THEN coords.rings[1]
                               ELSE coords.line
             IN  [sumLon |-> SumAt(flatCoords, 1), sumLat |-> SumAt(flatCoords, 2),
                  count |-> Len(flatCoords)]

\* avg(arr) of fetchClimateData, as the pair (sum, length); undefined when
\* the array is missing or empty
HasAvg(daily, f) == Has(daily, f) /\ daily[f] # <<>>

\* Math.round(x * 10) / 10 of the average sum / n, held as a whole number:
\* the daily payloads drawn are those whose rounded averages have no
\* fractional part (WholeAverages)
OneDecimal(sum, n) == RoundDiv(10 * sum, n) \div 10

WholeAverages(daily) ==
    \A f \in {"temperature_2m_mean", "precipitation_sum", "windspeed_10m_max"} :
        HasAvg(daily, f) => RoundDiv(10 * SumOf(daily[f]), Len(daily[f])) % 10 = 0

\* the ClimateData fetchClimateData builds from data.daily; a field whose
\* value is undefined is left out
ClimateFromDaily(daily) ==
    LET hasT == HasAvg(daily, "temperature_2m_mean")
        hasR == HasAvg(daily, "precipitation_sum")
        hasH == HasAvg(daily, "relative_humidity_2m_mean")
        hasW == HasAvg(daily, "windspeed_10m_max")
        sr == SumOf(daily.precipitation_sum)
        nr == Len(daily.precipitation_sum)
        sh == SumOf(daily.relative_humidity_2m_mean)
        nh == Len(daily.relative_humidity_2m_mean)
        given == (IF hasT THEN {"temperature"} ELSE {})
                 \cup (IF hasR THEN {"rainfall"} ELSE {})
                 \cup (IF hasH THEN {"relativeHumidity", "canopyHumidity"} ELSE {})
                 \cup (IF hasW THEN {"windSpeed"} ELSE {})
                 \cup (IF hasR /\ hasH THEN {"soilMoisture", "wetnessHours"} ELSE {})
    IN  [f \in given |->
            CASE f = "temperature" ->
                   OneDecimal(SumOf(daily.temperature_2m_mean),
                              Len(daily.temperature_2m_mean))
              [] f = "rainfall" -> OneDecimal(sr, nr)
              [] f = "relativeHumidity" -> RoundDiv(sh, nh)
              [] f = "windSpeed" ->
                   OneDecimal(SumOf(daily.windspeed_10m_max), Len(daily.windspeed_10m_max))
              \* Math.min(100, Math.round(10 + rainfall * 4 + relativeHumidity / 5))
              [] f = "soilMoisture" ->
                   Min(100, RoundDiv(50 * nr * nh + 20 * sr * nh + sh * nr, 5 * nr * nh))
              \* Math.min(100, Math.round(relativeHumidity - 3))
              [] f = "canopyHumidity" -> Min(100, RoundDiv(sh - 3 * nh, nh))
              \* Math.round(Math.min(168, rainfall * 3 + relativeHumidity / 3))
              [] f = "wetnessHours" ->
                   Min(168, RoundDiv(9 * sr * nh + sh * nr, 3 * nr * nh))]

\* the ClimateData {} of fetchClimateData's early return and of its catch
EmptyClimate == [f \in {} |-> 0]

\* !aoi || !aoi.geometry || !aoi.geometry.coordinates, on a destructured body
MissingGeometry(fields) ==
    \/ ~Has(fields, "aoi")
    \/ ~Has(fields.aoi, "geometry")
    \/ ~Has(fields.aoi.geometry, "coordinates")

NoResponse == [status |-> 0, body |-> [text |-> "none"]]

Respond(status, body) == [status |-> status, body |-> body]

(***************************************************************************)
(* One request to planet-aoi against one behaviour of the weather service  *)
(***************************************************************************)
Geometries ==
    { [type |-> "Point", coordinates |-> [point |-> <<75, 34>>]],
      [type |-> "LineString", coordinates |-> [line |-> << <<74, 34>>, <<76, 36>> >>]],
      [type |-> "Polygon",
       coordinates |-> [rings |-> << << <<74, 34>>, <<76, 34>>, <<75, 37>> >> >>]],
      [type |-> "Polygon", coordinates |-> [rings |-> <<>>]] }

Properties == [drawingType |-> "polygon", createdAt |-> "2026-01-01"]

AcceptedBodies ==
    UNION { { [aoi |-> [geometry |-> g, properties |-> Properties],
               layers |-> <<"ndvi">>],
              [aoi |-> [geometry |-> g, properties |-> Properties]],
              [aoi |-> [geometry |-> g], layers |-> <<"ndvi">>] } : g \in Geometries }

RequestBodies ==
    { [kind |-> "unparseable"], [kind |-> "null"], [kind |-> "number"] }
    \cup { [kind |-> "object", fields |-> f] :
             f \in { [layers |-> <<>>],
                     [aoi |-> [properties |-> Properties], layers |-> <<>>],
                     [aoi |-> [geometry |-> [type |-> "Point"],
                               properties |-> Properties],
                      layers |-> <<>>] } \cup AcceptedBodies }

AoiRequests ==
    { [method |-> m, body |-> [kind |-> "unparseable"]] : m \in {"OPTIONS", "GET", "DELETE"} }
    \cup { [method |-> "POST", body |-> b] : b \in RequestBodies }

DailyPayloads ==
    { d \in { [time |-> <<>>],
              [time |-> <<1, 2>>, temperature_2m_mean |-> <<18, 22>>,
               precipitation_sum |-> <<2, 4>>, relative_humidity_2m_mean |-> <<80, 91>>,
               windspeed_10m_max |-> <<5, 7>>],
              [time |-> <<1>>, temperature_2m_mean |-> <<30>>,
               precipitation_sum |-> <<>>] } : WholeAverages(d) }

\* how the weather service answers: the fetch rejects, or resolves with a
\* status and a body that parses or not
WeatherBehaviours ==
    { [fetch |-> "rejects"],
      [fetch |-> "resolves", ok |-> FALSE],
      [fetch |-> "resolves", ok |-> TRUE, json |-> [kind |-> "unparseable"]],
      [fetch |-> "resolves", ok |-> TRUE, json |-> [kind |-> "object", fields |-> <<>>]] }
    \cup { [fetch |-> "resolves", ok |-> TRUE,
            json |-> [kind |-> "object", fields |-> [daily |-> d]]] : d \in DailyPayloads }

InitAoi ==
    /\ handler \in [req : AoiRequests, weather : WeatherBehaviours,
                    fetches : {0}, response : {NoResponse}]
    /\ pc = "idle"
    /\ climate = NoClimate
    /\ analysis = NoAnalysis
    /\ params = NoReading
    /\ results = <<>>
    /\ viewParams = InitialViewParams
    /\ view = "Diseases"
    /\ riskModel = "standard"
    /\ farmHealthScore = 85
    /\ isAutoFilling = FALSE
    /\ timers = <<>>
    /\ planet = NoFetch

\* Deno.serve's callback up to `await req.json()`
ServeRequest ==
    /\ pc = "idle"
    /\ IF handler.req.method = "OPTIONS"
       THEN /\ handler' = [handler EXCEPT !.response = Respond(204, [text |-> "null"])]
            /\ pc' = "responded"
       ELSE IF handler.req.method # "POST"
       THEN /\ handler' = [handler EXCEPT
                              !.response = Respond(405, [text |-> "Method not allowed"])]
            /\ pc' = "responded"
       ELSE /\ pc' = "await req.json"
            /\ UNCHANGED handler
    /\ UNCHANGED <<params, results, climate, analysis, ui, planet>>

\* from the settling of req.json() to the fetch of fetchClimateData.  The
\* destructuring of a null body throws outside every try block: the callback
\* rejects and the runtime's default error handler answers 500.
ReadBody ==
    /\ pc = "await req.json"
    /\ LET body == handler.req.body
       IN  IF body.kind = "unparseable"
           THEN /\ handler' = [handler EXCEPT
                                  !.response = Respond(400, [text |-> "Invalid JSON body"])]
                /\ pc' = "responded"
           ELSE IF body.kind = "null"
           THEN /\ handler' = [handler EXCEPT
                                  !.response = Respond(500, [text |-> "Internal Server Error"])]
                /\ pc' = "responded"
           ELSE IF body.kind # "object" \/ MissingGeometry(body.fields)
           THEN /\ handler' = [handler EXCEPT
                                  !.response = Respond(400, [text |-> "Missing AOI geometry"])]
                /\ pc' = "responded"
           ELSE IF Has(getAOICenter(body.fields.aoi.geometry), "throws")
           THEN /\ handler' = [handler EXCEPT
                                  !.response = Respond(500, [error |-> "Internal error",
                                                             details |-> "TypeError"])]
                /\ pc' = "responded"
           ELSE /\ handler' = [handler EXCEPT !.fetches = @ + 1]
                /\ pc' = "await fetch"
    /\ UNCHANGED <<params, results, climate, analysis, ui, planet>>

\* fetchClimateData: the fetch settles; a rejection and a status that is not
\* ok both end in the catch, which returns {}
WeatherFetchSettles ==
    /\ pc = "await fetch"
    /\ IF handler.weather.fetch = "rejects" \/ ~handler.weather.ok
       THEN /\ climate' = EmptyClimate
            /\ pc' = "fetchClimateData"
       ELSE /\ pc' = "await response.json"
            /\ UNCHANGED climate
    /\ UNCHANGED <<params, results, analysis, ui, planet, handler>>

\* fetchClimateData: response.json() settles
WeatherJsonSettles ==
    /\ pc = "await response.json"
    /\ LET data == handler.weather.json
       IN  climate' =
               IF data.kind = "unparseable" THEN EmptyClimate
               ELSE IF \/ ~Has(data.fields, "daily")
                       \/ ~Has(data.fields.daily, "time")
                       \/ data.fields.daily.time = <<>>
               THEN EmptyClimate
               ELSE ClimateFromDaily(data.fields.daily)
    /\ pc' = "fetchClimateData"
    /\ UNCHANGED <<params, results, analysis, ui, planet, handler>>

\* the rest of the try block: analyzeRisk, the log line (which reads
\* aoi.properties.drawingType), the response object (which reads
\* layers.length) and the 200; a TypeError on the way goes to the catch
AnalyzeAndRespond ==
    /\ pc = "fetchClimateData"
    /\ analysis' = analyzeRisk(climate)
    /\ LET fields == handler.req.body.fields
           geometry == fields.aoi.geometry
       IN  handler' = [handler EXCEPT !.response =
               IF ~Has(fields.aoi, "properties") \/ ~Has(fields, "layers")
               THEN Respond(500, [error |-> "Internal error", details |-> "TypeError"])
               ELSE Respond(200, [success |-> TRUE,
                                  message |-> "AOI analyzed successfully",
                                  geometry |-> geometry.type,
                                  center |-> getAOICenter(geometry),
                                  climateData |-> climate,
                                  riskAnalysis |-> analyzeRisk(climate),
                                  layerCount |-> Len(fields.layers)])]
    /\ pc' = "responded"
    /\ UNCHANGED <<params, results, climate, ui, planet>>

NextAoi ==
    \/ ServeRequest
    \/ ReadBody
    \/ WeatherFetchSettles
    \/ WeatherJsonSettles
    \/ AnalyzeAndRespond

SpecAoi == InitAoi /\ [][NextAoi]_vars

(***************************************************************************)
(* Properties of the rules engine (specification Spec)                     *)
(***************************************************************************)
\* A local of a formula is bound as \A x \in {e} : ..., which TLC evaluates
\* once, where LET x == e IN ... is evaluated again at every use of x.
Called == pc \in {"calculateDiseaseRisks", "calculatePestRisks"}

\* the catalog the call that ran iterates over
ItemsOfCall == IF pc = "calculateDiseaseRisks" THEN DiseaseItems(params) ELSE PestItems(params)

\* position of a catalog name in the declaration order
IndexOfName(items, name) == CHOOSE i \in 1..Len(items) : items[i].name = name

\* the returned entry for a catalog name
ResultOf(name) == results[CHOOSE i \in 1..Len(results) : results[i].name = name]

\* C1: every returned score lies in 0..100, and so does the raw score of
\* every catalog item before the disease weight is applied, in either mode.
ScoreWithinBounds ==
    Called =>
        \A items \in {ItemsOfCall} :
            /\ \A i \in 1..Len(results) :
                  results[i].score >= 0 /\ results[i].score <= 100
            /\ \A k \in 1..Len(items) :
                  \A raw \in {ScoreItem(items[k], params).score} :
                      raw >= 0 /\ raw <= 100

\* C1 witness: an item with six matched checks (6 x 20 = 120 before the cap)
\* is returned with score 100.
SixMatchesCapped ==
    /\ Called
    /\ \E i \in 1..Len(results) :
          Len(results[i].matchedFactors) = 6 /\ results[i].score = 100

SortedAndStable ==
    Called =>
        \A items \in {ItemsOfCall} :
        \A pos \in {[i \in 1..Len(results) |-> IndexOfName(items, results[i].name)]} :
            \A i, j \in 1..Len(results) :
                i < j =>
                    /\ results[i].score >= results[j].score
                    /\ results[i].score = results[j].score => pos[i] < pos[j]

\* C3 witness: a returned list in which the sort moved an item forward and
\* which holds two entries of one non-zero score.
TieAndReorder ==
    /\ Called
    /\ results[1].name # ItemsOfCall[1].name
    /\ \E i, j \in 1..Len(results) :
          i < j /\ results[i].score = results[j].score /\ results[i].score > 0

\* the indices of the checks of an item whose predicate is true
TrueChecks(item) == {k \in 1..Len(item.checks) : item.checks[k][2]}

\* the position of index k among the indices of a set, in increasing order
RankIn(idx, k) == Cardinality({m \in idx : m < k}) + 1

\* C4: in standard mode, for every catalog item, matchedFactors is the
\* sub-sequence of the item's labels whose predicate is true, in declaration
\* order, the raw score is min(100, 20 x its length), and the returned entry
\* carries that matchedFactors.
StandardScoreCountsMatches ==
    (Called /\ ModeOf(params) # "meta") =>
        \A items \in {ItemsOfCall} :
            \A n \in 1..Len(items) :
                \A item \in {items[n]} :
                \A sc \in {scoreStandardItem(item, params)} :
                \A idx \in {TrueChecks(item)} :
                    /\ Len(sc.matchedFactors) = Cardinality(idx)
                    /\ \A k \in idx :
                          sc.matchedFactors[RankIn(idx, k)] = item.checks[k][1]
                    /\ sc.score = Min(100, 20 * Cardinality(idx))
                    /\ ResultOf(item.name).matchedFactors = sc.matchedFactors

\* C4 witness: a standard-mode call in which an item matches some checks but
\* not all, with a false check in front of a true one.
PartialStandardMatch ==
    /\ Called /\ ModeOf(params) # "meta"
    /\ \E n \in 1..Len(ItemsOfCall) :
          LET item == ItemsOfCall[n]
          IN  /\ ~item.checks[1][2]
              /\ Cardinality(TrueChecks(item)) >= 2
              /\ Cardinality(TrueChecks(item)) < Len(item.checks)

\* the weight the claim gives each name, in percent
ClaimedWeight(name) ==
    CASE name = "Brown Rot" -> 120
      [] name = "Bull's[U+2011]eye Rot" -> 115
      [] name = "Apple Scab" -> 110
      [] name = "Apple Leaf Blotch (Alternaria)" -> 105
      [] OTHER -> 100

CallOn(p) ==
    IF pc = "calculateDiseaseRisks" THEN calculateDiseaseRisks(p) ELSE calculatePestRisks(p)

\* a reading that supplies no optional field (the mode apart)
OptionalsOmitted(p) == DOMAIN p \subseteq {"temperature", "mode"}

\* the same reading with every optional field written out at its default
WithExplicitDefaults(p) ==
    [f \in DOMAIN p \cup (OptionalFields \ {"mode"}) |->
        IF f \in {"temperature", "mode"} THEN p[f]
        ELSE IF f \in NumericFields THEN 0
        ELSE IF f \in FlagFields THEN FALSE
        ELSE "unknown"]

\* C6: a reading with every optional field omitted gives, in either mode and
\* for either category, the result list of the reading with every optional
\* field set to its default (0, 'unknown', false).
DefaultSafety ==
    (Called /\ OptionalsOmitted(params)) =>
        results = CallOn(WithExplicitDefaults(params))

LegacyNames == {"rh", "weeklyRainfall", "leafWetness"}

CurrentNameOf(f) ==
    CASE f = "rh" -> "relativeHumidity"
      [] f = "weeklyRainfall" -> "rainfall"
      [] f = "leafWetness" -> "wetnessHours"
      [] OTHER -> f

\* humidity, rainfall and wetness supplied under the legacy names only
LegacyOnly(p) ==
    /\ DOMAIN p \cap LegacyNames # {}
    /\ DOMAIN p \cap {CurrentNameOf(f) : f \in LegacyNames} = {}

\* the same values under the current names only
UnderCurrentNames(p) ==
    [g \in {CurrentNameOf(f) : f \in DOMAIN p} |->
        p[CHOOSE f \in DOMAIN p : CurrentNameOf(f) = g]]

\* C7: a reading that names humidity, rainfall and wetness rh, weeklyRainfall
\* and leafWetness gives, in either mode and for either category, the result
\* list of the reading that names them relativeHumidity, rainfall and
\* wetnessHours.
AliasInterchangeable ==
    (Called /\ LegacyOnly(params)) =>
        results = CallOn(UnderCurrentNames(params))

\* the numeric ranges a catalog entry may declare: lower bound, upper bound
\* (none for canopy humidity) and the reading field they are compared with
MetaFactors ==
    { <<"tempMin", "tempMax", "temperature">>,
      <<"rhMin", "rhMax", "relativeHumidity">>,
      <<"rainMin", "rainMax", "rainfall">>,
      <<"wetMin", "wetMax", "wetnessHours">>,
      <<"windMin", "windMax", "windSpeed">>,
      <<"soilMin", "soilMax", "soilMoisture">>,
      <<"canopyMin", "canopyMax", "canopyHumidity">> }

\* the declared ranges of an item that contain the reading's value, an
\* undeclared upper bound meaning 'lower bound or above'
RangesHit(meta, p) ==
    {x \in MetaFactors :
        /\ x[1] \in DOMAIN meta
        /\ x[3] \in DOMAIN p
        /\ p[x[3]] >= meta[x[1]]
        /\ (x[2] \in DOMAIN meta => p[x[3]] <= meta[x[2]])}

IsNecrotic(name) == name = "Necrotic Leaf Blotch (physiological)"

\* the number k of the claim for one item and one reading
MetaCount(item, p) ==
    Cardinality(RangesHit(item.meta, p))
    + (IF /\ "dustLevel" \in DOMAIN item.meta /\ item.meta.dustLevel = "high"
          /\ "dustLevel" \in DOMAIN p /\ p.dustLevel = "high" THEN 1 ELSE 0)
    + (IF /\ "drainage" \in DOMAIN item.meta /\ item.meta.drainage = "poor"
          /\ \/ ("drainage" \in DOMAIN p /\ p.drainage = "poor")
             \/ ("hasStandingWater48h" \in DOMAIN p /\ p.hasStandingWater48h)
       THEN 1 ELSE 0)
    + (IF /\ IsNecrotic(item.name)
          /\ "hasTempJump10C" \in DOMAIN p /\ p.hasTempJump10C THEN 1 ELSE 0)
    + (IF /\ IsNecrotic(item.name)
          /\ "hadDroughtThenHeavyRain" \in DOMAIN p /\ p.hadDroughtThenHeavyRain
       THEN 1 ELSE 0)

\* C8: in meta mode the raw score of every catalog item is min(100, 20 x k),
\* k counting the declared ranges that contain the reading's value, the dust
\* and drainage rules and, for the necrotic-leaf-blotch item alone, the flags
\* hasTempJump10C and hadDroughtThenHeavyRain; matchedFactors has k labels and
\* the two flags change no other item's score.
MetaScoreCountsRanges ==
    (Called /\ ModeOf(params) = "meta") =>
        \A items \in {ItemsOfCall} :
        \A flagged \in {{SetField(SetField(params, "hasTempJump10C", b1),
                                   "hadDroughtThenHeavyRain", b2) : b1, b2 \in BOOLEAN}} :
            \A n \in 1..Len(items) :
                \A item \in {items[n]} :
                \A sc \in {scoreFromMeta(item.name, item.meta, params)} :
                \A k \in {MetaCount(item, params)} :
                \A r \in {ResultOf(item.name)} :
                    /\ sc.score = Min(100, 20 * k)
                    /\ Len(sc.matchedFactors) = k
                    /\ r.matchedFactors = sc.matchedFactors
                    /\ r.category = "Pest" => r.score = sc.score
                    /\ ~IsNecrotic(item.name) =>
                          \A p \in flagged :
                              scoreFromMeta(item.name, item.meta, p).score = sc.score

\* C8 witness: a meta-mode call in which the necrotic-leaf-blotch item has six
\* labels (four ranges and both flags, capped at 100) and another item scores
\* on a range that declares no upper bound.
MetaSixLabels ==
    /\ pc = "calculateDiseaseRisks" /\ ModeOf(params) = "meta"
    /\ Len(ResultOf("Necrotic Leaf Blotch (physiological)").matchedFactors) = 6
    /\ ResultOf("Necrotic Leaf Blotch (physiological)").score = 100
    /\ \E i \in 1..Len(ResultOf("Collar / Root Rot").matchedFactors) :
          ResultOf("Collar / Root Rot").matchedFactors[i] = "Rainfall in favourable range"

(***************************************************************************)
(* Properties of analyzeRisk (specification SpecAnalyze)                   *)
(***************************************************************************)
\* the points of a two-band factor: `hi` when the value satisfies inner, else
\* `mid` when it satisfies outer, else 0; 0 when the value is missing
BandPoints(c, f, inner(_), outer(_), hi, mid) ==
    IF f \notin DOMAIN c THEN 0
    ELSE IF inner(c[f]) THEN hi
    ELSE IF outer(c[f]) THEN mid
    ELSE 0

\* the sum the claim states for a ClimateData record
ClaimedRiskScore(c) ==
    BandPoints(c, "temperature", LAMBDA v : v >= 15 /\ v <= 25,
               LAMBDA v : v >= 12 /\ v <= 28, 25, 15)
    + BandPoints(c, "relativeHumidity", LAMBDA v : v >= 85, LAMBDA v : v >= 70, 25, 15)
    + BandPoints(c, "wetnessHours", LAMBDA v : v >= 12, LAMBDA v : v >= 8, 25, 15)
    + BandPoints(c, "soilMoisture", LAMBDA v : v >= 50 /\ v <= 80,
                 LAMBDA v : v >= 40 /\ v <= 90, 15, 10)
    + BandPoints(c, "rainfall", LAMBDA v : v >= 20, LAMBDA v : v >= 10, 10, 5)

RiskScoreWithinBounds ==
    pc = "analyzeRisk" => analysis.riskScore >= 0 /\ analysis.riskScore <= 100

\* C10 witness: the five maxima together reach exactly 100.
RiskScoreReaches100 ==
    /\ pc = "analyzeRisk"
    /\ analysis.riskScore = 100
    /\ analysis.factors.soilMoisture.risk = "medium"


\* C11: riskLevel is 'critical' iff riskScore >= 80, 'high' iff
\* 60 <= riskScore < 80, 'medium' iff 40 <= riskScore < 60, and 'low' iff
\* riskScore < 40.
RiskLevelMatchesScore ==
    pc = "analyzeRisk" =>
        LET s == analysis.riskScore
            l == analysis.riskLevel
        IN  /\ (l = "critical") <=> (s >= 80)
            /\ (l = "high") <=> (s >= 60 /\ s < 80)
            /\ (l = "medium") <=> (s >= 40 /\ s < 60)
            /\ (l = "low") <=> (s < 40)

\* C11 witness: a call whose score sits exactly on the 'critical' threshold
\* (25 + 25 + 15 + 15 + 0 = 80).
ScoreOnCriticalThreshold ==
    /\ pc = "analyzeRisk"
    /\ analysis.riskScore = 80
    /\ analysis.riskLevel = "critical"

\* the advisory messages in the order the claim gives them
AdvisoryMessages ==
    << "Temperature is optimal for disease spread - monitor closely",
       "High humidity detected - increase air circulation",
       "Extended leaf wetness period - apply fungicide if needed",
       "Soil moisture favorable for pathogen survival - adjust irrigation",
       "Consider preventive fungicide application" >>

\* the gating condition of each advisory message, read off a returned analysis
AdvisoryGates(a) ==
    << a.factors.temperature.risk = "high",
       a.factors.humidity.risk = "high",
       a.factors.wetness.risk = "high",
       a.factors.soilMoisture.risk = "medium",
       a.riskLevel \in {"critical", "high"} >>

LowRiskMessage == "Risk level is low - continue normal management"

\* C12: recommendations is never empty; the advisory messages appear in the
\* order temperature, humidity, wetness, soil moisture, preventive fungicide,
\* each present iff its gate holds; the low-risk fallback is present iff no
\* gate holds, and is then the only entry.
RecommendationsGated ==
    pc = "analyzeRisk" =>
        LET recs == analysis.recommendations
            gates == AdvisoryGates(analysis)
            anyGate == \E k \in 1..5 : gates[k]
        IN  /\ Len(recs) >= 1
            /\ \A i \in 1..Len(recs) :
                  recs[i] = LowRiskMessage \/ \E k \in 1..5 : recs[i] = AdvisoryMessages[k]
            /\ \A k \in 1..5 :
                  (\E i \in 1..Len(recs) : recs[i] = AdvisoryMessages[k]) <=> gates[k]
            /\ \A i, j \in 1..Len(recs) : \A k, m \in 1..5 :
                  (i < j /\ recs[i] = AdvisoryMessages[k] /\ recs[j] = AdvisoryMessages[m])
                      => k < m
            /\ (\E i \in 1..Len(recs) : recs[i] = LowRiskMessage) <=> ~anyGate
            /\ ~anyGate => recs = <<LowRiskMessage>>

\* C12 witness: a call in which only the soil-moisture gate holds (its flag
\* is 'medium' while the overall level is 'low'), so the list is that single
\* advisory message and the fallback is absent.
OnlySoilMoistureAdvice ==
    /\ pc = "analyzeRisk"
    /\ analysis.riskLevel = "low"
    /\ analysis.recommendations = <<AdvisoryMessages[4]>>


(***************************************************************************)
(* Relations between calls of the rules engine (specification Spec)        *)
(***************************************************************************)
\* the entries the call that ran would return, in catalog order, for reading b
EntriesFor(b) ==
    IF pc = "calculateDiseaseRisks"
    THEN LET items == DiseaseItems(b)
         IN  [k \in 1..Len(items) |-> DiseaseResult(items[k], b)]
    ELSE LET items == PestItems(b)
         IN  [k \in 1..Len(items) |-> PestResult(items[k], b)]

\* the catalog the call that ran iterates over, evaluated on reading b
ItemsFor(b) == IF pc = "calculateDiseaseRisks" THEN DiseaseItems(b) ELSE PestItems(b)

\* the standard-mode readings the returned result is compared with
StandardReadings == {b \in BaseReadings : ModeOf(b) # "meta"}

\* the true checks and the mapped entries of every item on each of those
\* readings, tabulated once
StandardTrueChecks ==
    [b \in StandardReadings |->
        [Disease |-> [k \in 1..Len(DiseaseItems(b)) |-> TrueChecks(DiseaseItems(b)[k])],
         Pest |-> [k \in 1..Len(PestItems(b)) |-> TrueChecks(PestItems(b)[k])]]]

StandardEntries ==
    [b \in StandardReadings |->
        [Disease |-> [k \in 1..Len(DiseaseItems(b)) |-> DiseaseResult(DiseaseItems(b)[k], b)],
         Pest |-> [k \in 1..Len(PestItems(b)) |-> PestResult(PestItems(b)[k], b)]]]

\* the category of the function that ran
CategoryOfCall == IF pc = "calculateDiseaseRisks" THEN "Disease" ELSE "Pest"

\* item k has under b every true check it has under the reading of the call,
\* and at least one more
MoreChecksTrue(itemsA, itemsB, k) ==
    /\ TrueChecks(itemsA[k]) \subseteq TrueChecks(itemsB[k])
    /\ TrueChecks(itemsA[k]) # TrueChecks(itemsB[k])

\* C13: in standard mode, for every catalog item, a reading B that makes true
\* every check the called reading A makes true, plus at least one more, gives
\* the item a final score (weighted and clamped) >= its score under A.
StandardMonotone ==
    (Called /\ ModeOf(params) # "meta") =>
        \A itemsA \in {ItemsOfCall} :
        \A trueA \in {[k \in 1..Len(itemsA) |-> TrueChecks(itemsA[k])]} :
        \A scoreA \in {[k \in 1..Len(itemsA) |-> ResultOf(itemsA[k].name).score]} :
            \A b \in StandardReadings :
                \A trueB \in {StandardTrueChecks[b][CategoryOfCall]} :
                \A entriesB \in {StandardEntries[b][CategoryOfCall]} :
                    \A k \in 1..Len(itemsA) :
                        (trueA[k] \subseteq trueB[k] /\ trueA[k] # trueB[k])
                            => entriesB[k].score >= scoreA[k]

\* C13 witness: a disease call on a reading under which a weighted disease
\* has some true checks and a score below 100, while another reading makes
\* those checks and more true and is weighted past 100 and clamped to 100.
MoreChecksClamped ==
    /\ pc = "calculateDiseaseRisks" /\ ModeOf(params) # "meta"
    /\ \E b \in StandardReadings :
          \E k \in 1..Len(DiseaseItems(params)) :
              LET name == DiseaseItems(params)[k].name
              IN  /\ name \in DOMAIN diseaseWeights
                  /\ MoreChecksTrue(DiseaseItems(params), DiseaseItems(b), k)
                  /\ ResultOf(name).score > 0
                  /\ ResultOf(name).score < 100
                  /\ ScoreItem(DiseaseItems(b)[k], b).score = 100
                  /\ EntriesFor(b)[k].score = 100


(***************************************************************************)
(* Worked examples of the rules engine (specification Spec)                *)
(***************************************************************************)
\* the cold, dry and windy reading of the worked example
ColdDryReading ==
    [temperature |-> 5, relativeHumidity |-> 20, rainfall |-> 0,
     wetnessHours |-> 0, windSpeed |-> 30]

\* C15 as stated: for the cold-dry reading no standard check of any disease
\* item is true, and every disease is returned with score 0 and level Low.
ColdDryAllZero ==
    (pc = "calculateDiseaseRisks" /\ params = ColdDryReading) =>
        /\ \A k \in 1..Len(DiseaseItems(params)) : TrueChecks(DiseaseItems(params)[k]) = {}
        /\ \A i \in 1..Len(results) : results[i].score = 0 /\ results[i].level = "Low"

\* C15 amended: for the cold-dry reading exactly three standard checks are
\* true: Necrotic Leaf Blotch matches 'RH <40% OR >90%' and 'Hot & dry wind
\* >15 km/h' (score 40, Medium), Powdery Mildew matches 'Leaf wetness 0-2h'
\* (score 20, Low); every other disease has score 0, level Low and no
\* matched factor.
ColdDryThreeChecks ==
    (pc = "calculateDiseaseRisks" /\ params = ColdDryReading) =>
        \A i \in 1..Len(results) :
            LET r == results[i]
            IN  CASE r.name = "Necrotic Leaf Blotch (physiological)" ->
                       /\ r.score = 40 /\ r.level = "Medium"
                       /\ r.matchedFactors = <<"RH <40% OR >90%", "Hot & dry wind >15 km/h">>
                  [] r.name = "Powdery Mildew" ->
                       /\ r.score = 20 /\ r.level = "Low"
                       /\ r.matchedFactors = <<"Leaf wetness 0-2h">>
                  [] OTHER ->
                       r.score = 0 /\ r.level = "Low" /\ r.matchedFactors = <<>>

\* C15 witness: the disease call on the cold-dry reading has returned, with
\* Necrotic Leaf Blotch first and all nine diseases listed.
ColdDryCalled ==
    /\ pc = "calculateDiseaseRisks"
    /\ params = ColdDryReading
    /\ Len(results) = 9
    /\ results[1].name = "Necrotic Leaf Blotch (physiological)"
    /\ results[2].name = "Powdery Mildew"


(***************************************************************************)
(* Worked example of analyzeRisk (specification SpecAnalyze)               *)
(***************************************************************************)
\* the warm and wet input of the worked example
WarmWetClimate ==
    [temperature |-> 20, relativeHumidity |-> 90, wetnessHours |-> 14,
     soilMoisture |-> 65, rainfall |-> 25]

\* C16 as stated: for the warm-wet input riskScore is 100, riskLevel is
\* 'critical', and recommendations is exactly the humidity message, the
\* leaf-wetness message and the preventive-fungicide message, in that order.
WarmWetThreeMessages ==
    (pc = "analyzeRisk" /\ climate = WarmWetClimate) =>
        /\ analysis.riskScore = 100
        /\ analysis.riskLevel = "critical"
        /\ analysis.recommendations =
              << "High humidity detected - increase air circulation",
                 "Extended leaf wetness period - apply fungicide if needed",
                 "Consider preventive fungicide application" >>

\* C16 amended: for the warm-wet input riskScore is 100, riskLevel is
\* 'critical', and recommendations is exactly five entries in this order:
\* the temperature message, the humidity message, the leaf-wetness message,
\* the soil-moisture message and the preventive-fungicide message; the
\* low-risk fallback is absent.
WarmWetFiveMessages ==
    (pc = "analyzeRisk" /\ climate = WarmWetClimate) =>
        /\ analysis.riskScore = 100
        /\ analysis.riskLevel = "critical"
        /\ analysis.recommendations =
              << "Temperature is optimal for disease spread - monitor closely",
                 "High humidity detected - increase air circulation",
                 "Extended leaf wetness period - apply fungicide if needed",
                 "Soil moisture favorable for pathogen survival - adjust irrigation",
                 "Consider preventive fungicide application" >>

\* C16 witness: analyzeRisk has returned for the warm-wet input, with the
\* temperature flag 'high' and the soil-moisture flag 'medium'.
WarmWetAnalysed ==
    /\ pc = "analyzeRisk"
    /\ climate = WarmWetClimate
    /\ analysis.factors.temperature.risk = "high"
    /\ analysis.factors.soilMoisture.risk = "medium"
    /\ Len(analysis.recommendations) = 5


(***************************************************************************)
(* Weighting and levels (specification Spec)                               *)
(***************************************************************************)
\* the level the thresholds 30 and 70 give a score
LevelOfScore(s) == IF s > 70 THEN "High" ELSE IF s > 30 THEN "Medium" ELSE "Low"

\* C17 as stated: for every disease item and every reading, in either mode,
\* the level of the weighted score equals the level of the raw score.
WeightKeepsLevel ==
    (pc = "calculateDiseaseRisks") =>
        LET items == DiseaseItems(params)
        IN  \A k \in 1..Len(items) :
                LET raw == ScoreItem(items[k], params).score
                    r == ResultOf(items[k].name)
                IN  /\ r.level = LevelOfScore(raw)
                    /\ LevelOfScore(r.score) = LevelOfScore(raw)

\* C17 amended: for every disease item and every reading, in either mode,
\* the level of the weighted score equals the level of the raw score, except
\* for Brown Rot at raw score 60, whose weighted score 72 is High while 60 is
\* Medium.
WeightKeepsLevelButBrownRot60 ==
    (pc = "calculateDiseaseRisks") =>
        \A items \in {DiseaseItems(params)} :
            \A k \in 1..Len(items) :
                \A raw \in {ScoreItem(items[k], params).score} :
                \A r \in {ResultOf(items[k].name)} :
                    IF items[k].name = "Brown Rot" /\ raw = 60
                    THEN r.score = 72 /\ r.level = "High"
                    ELSE /\ r.level = LevelOfScore(raw)
                         /\ LevelOfScore(r.score) = LevelOfScore(raw)

\* C17 witness: one call returns Brown Rot with raw score 60 as 72 and High,
\* and another weighted disease with raw score 60 still as Medium.
BrownRotAloneCrosses ==
    /\ pc = "calculateDiseaseRisks"
    /\ LET items == DiseaseItems(params)
       IN  /\ ScoreItem(items[IndexOfName(items, "Brown Rot")], params).score = 60
           /\ ResultOf("Brown Rot").level = "High"
           /\ \E k \in 1..Len(items) :
                 /\ items[k].name \in DOMAIN diseaseWeights
                 /\ items[k].name # "Brown Rot"
                 /\ ScoreItem(items[k], params).score = 60
                 /\ ResultOf(items[k].name).level = "Medium"


(***************************************************************************)
(* Meta mode on the zero defaults (specification Spec)                     *)
(***************************************************************************)
\* every optional field of the reading is present at its default: numeric
\* fields 0, dustLevel and drainage 'unknown', flags false; a legacy alias
\* (rh, weeklyRainfall, leafWetness), when given as well, is 0 too
AtZeroDefaults(p) ==
    /\ \A f \in (NumericFields \ {"temperature"}) \ LegacyNames :
          f \in DOMAIN p /\ p[f] = 0
    /\ \A f \in LegacyNames : f \in DOMAIN p => p[f] = 0
    /\ \A f \in FlagFields : f \in DOMAIN p /\ p[f] = FALSE
    /\ "dustLevel" \in DOMAIN p /\ p.dustLevel = "unknown"
    /\ "drainage" \in DOMAIN p /\ p.drainage = "unknown"

\* the (min, max) key pairs of the numeric ranges a meta entry can declare
\* for an optional field
OptionalRangeKeys ==
    { <<"rhMin", "rhMax">>, <<"rainMin", "rainMax">>, <<"wetMin", "wetMax">>,
      <<"windMin", "windMax">>, <<"soilMin", "soilMax">>, <<"canopyMin", "canopyMax">> }

\* the declared ranges of a meta entry that contain 0
RangesContainingZero(meta) ==
    {x \in OptionalRangeKeys :
        /\ x[1] \in DOMAIN meta
        /\ meta[x[1]] <= 0
        /\ (x[2] \in DOMAIN meta => meta[x[2]] >= 0)}

\* C20: in meta mode with every optional field at its zero default, every
\* disease and pest item has raw score 20 x (number of its declared ranges
\* that contain 0): 0 for an item declaring no such range, and no other
\* check of any item matches.
ZeroDefaultsMetaScore ==
    (Called /\ ModeOf(params) = "meta" /\ AtZeroDefaults(params)) =>
        \A items \in {ItemsOfCall} :
            \A k \in 1..Len(items) :
                \A sc \in {ScoreItem(items[k], params)} :
                \A n \in {Cardinality(RangesContainingZero(items[k].meta))} :
                    /\ sc.score = 20 * n
                    /\ Len(sc.matchedFactors) = n
                    /\ Len(ResultOf(items[k].name).matchedFactors) = n

\* C20 witness: a meta-mode disease call on the zero defaults returns Powdery
\* Mildew with two matched ranges (wetness from 0, wind from 0: 40), Necrotic
\* Leaf Blotch with one (soil moisture from 0: 20) and Apple Scab with none.
ZeroDefaultsMetaCalled ==
    /\ pc = "calculateDiseaseRisks"
    /\ ModeOf(params) = "meta" /\ AtZeroDefaults(params)
    /\ ResultOf("Powdery Mildew").score = 40
    /\ ResultOf("Necrotic Leaf Blotch (physiological)").score = 20
    /\ ResultOf("Apple Scab").score = 0


(***************************************************************************)
(* Properties of the farm health score (specification SpecPredict)         *)
(***************************************************************************)
\* none of the eight adverse conditions the README lists holds for the
\* reading handed to calculateFarmHealth
NoAdverseClimate(p) ==
    /\ p.temperature >= 15 /\ p.temperature <= 28
    /\ p.rh <= 85
    /\ p.weeklyRainfall <= 30
    /\ p.leafWetness <= 12
    /\ p.windSpeed >= 2
    /\ ~p.hasStandingWater48h /\ ~p.hasTempJump10C /\ ~p.hadDroughtThenHeavyRain

\* C18: after a prediction the farm health score is an integer in 0..100,
\* and a reading with no adverse climate condition together with results
\* holding no High or Medium item gives a score in the Excellent band (>= 80).
BenignPredictionIsExcellent ==
    pc = "handlePredict" =>
        /\ farmHealthScore \in 0..100
        /\ (/\ NoAdverseClimate(params)
            /\ \A i \in 1..Len(results) : results[i].level \notin {"High", "Medium"})
               => farmHealthScore >= 80

\* what the code does instead: after a prediction the score never exceeds 50,
\* the top of the Fair band
HealthScoreAtMost50 ==
    pc = "handlePredict" => farmHealthScore \in 0..50

\* a benign prediction reaching that maximum: no adverse condition, every
\* item Low, and the displayed score is 50
BenignPredictionScores50 ==
    /\ pc = "handlePredict"
    /\ NoAdverseClimate(params)
    /\ Len(results) > 0
    /\ \A i \in 1..Len(results) : results[i].level = "Low"
    /\ farmHealthScore = 50


(***************************************************************************)
(* Properties of fetchPlanetInsights (specification SpecPlanet)            *)
(***************************************************************************)
\* the backend answered 2xx with a body that parses to an object defining at
\* least one of temperature, rainfall, relativeHumidity
BackendGaveClimate(b) ==
    /\ b.net = "ok"
    /\ b.status \in 200..299
    /\ b.body.parse = "ok"
    /\ b.body.data.type = "object"
    /\ {"temperature", "rainfall", "relativeHumidity"} \cap DOMAIN b.body.data.fields # {}

\* C19: the promise of fetchPlanetInsights is never rejected; once the call
\* has returned, it is fulfilled with the backend's data iff the response was
\* ok and its body defines at least one of temperature, rainfall,
\* relativeHumidity, and otherwise with the local mock tagged _source 'mock'.
PlanetNeverRejects ==
    /\ planet.promise.state # "rejected"
    /\ pc = "fetchPlanetInsights" =>
          /\ planet.promise.state = "fulfilled"
          /\ LET v == planet.promise.value
             IN  IF BackendGaveClimate(planet.backend)
                 THEN v = planet.backend.body.data
                 ELSE /\ v.type = "object"
                      /\ "_source" \in DOMAIN v.fields
                      /\ v.fields._source = "mock"
                      /\ {"temperature", "rainfall", "relativeHumidity", "windSpeed",
                          "soilMoisture", "canopyHumidity", "wetnessHours"}
                            \subseteq DOMAIN v.fields

\* C19 witness: a 200 response whose body does not parse; the call has
\* returned the mock.
UnparseableBodyGivesMock ==
    /\ pc = "fetchPlanetInsights"
    /\ planet.backend.net = "ok"
    /\ planet.backend.status = 200
    /\ planet.backend.body.parse = "fail"
    /\ planet.promise.state = "fulfilled"
    /\ planet.promise.value.fields._source = "mock"


(***************************************************************************)
(* Priority among ties (specification Spec)                                *)
(***************************************************************************)
\* position of a catalog name in the returned list
PositionOf(name) == CHOOSE i \in 1..Len(results) : results[i].name = name

\* C21: whenever two disease items have the same non-zero raw score, the one
\* with the larger tie-break weight is returned earlier, and two unweighted
\* items are returned in catalog order.
TiePriorityByWeight ==
    (pc = "calculateDiseaseRisks") =>
        \A items \in {DiseaseItems(params)} :
        \A raw \in {[k \in 1..Len(items) |-> ScoreItem(items[k], params).score]} :
        \A pos \in {[k \in 1..Len(items) |-> PositionOf(items[k].name)]} :
            \A a, b \in 1..Len(items) :
                (raw[a] = raw[b] /\ raw[a] > 0) =>
                    /\ ClaimedWeight(items[a].name) > ClaimedWeight(items[b].name)
                          => pos[a] < pos[b]
                    /\ (/\ ClaimedWeight(items[a].name) = 100
                        /\ ClaimedWeight(items[b].name) = 100
                        /\ a < b) => pos[a] < pos[b]

\* C21 witness: Brown Rot and Apple Scab share a non-zero raw score with an
\* unweighted disease, and are returned Brown Rot first, Apple Scab next,
\* although Apple Scab comes first in the catalog.
TieResolvedAgainstCatalogOrder ==
    /\ pc = "calculateDiseaseRisks"
    /\ LET items == DiseaseItems(params)
           rawOf(name) == ScoreItem(items[IndexOfName(items, name)], params).score
       IN  /\ rawOf("Brown Rot") > 0
           /\ rawOf("Brown Rot") = rawOf("Apple Scab")
           /\ rawOf("Brown Rot") = rawOf("Powdery Mildew")
           /\ PositionOf("Brown Rot") < PositionOf("Apple Scab")
           /\ PositionOf("Apple Scab") < PositionOf("Powdery Mildew")

\* the tie the clamp leaves: Apple Scab and Apple Leaf Blotch both at raw 100
\* and both returned with 100, Apple Scab (the larger weight) first
TieAtTheClamp ==
    /\ pc = "calculateDiseaseRisks"
    /\ ResultOf("Apple Scab").score = 100
    /\ ResultOf("Apple Leaf Blotch (Alternaria)").score = 100
    /\ Len(ResultOf("Apple Leaf Blotch (Alternaria)").matchedFactors) = 5
    /\ PositionOf("Apple Scab") < PositionOf("Apple Leaf Blotch (Alternaria)")


(***************************************************************************)
(* The fallback recommendation and the factor flags (SpecAnalyze)          *)
(***************************************************************************)
\* C25: whenever the fallback recommendation 'Risk level is low - continue
\* normal management' is returned, the returned riskLevel is 'low'.
FallbackOnlyWhenLow ==
    pc = "analyzeRisk" =>
        ((\E i \in 1..Len(analysis.recommendations) :
              analysis.recommendations[i] = LowRiskMessage)
            => analysis.riskLevel = "low")

\* what the code guarantees instead: the fallback never accompanies 'high' or
\* 'critical'
FallbackNeverWhenHigh ==
    pc = "analyzeRisk" =>
        ((\E i \in 1..Len(analysis.recommendations) :
              analysis.recommendations[i] = LowRiskMessage)
            => analysis.riskLevel \in {"low", "medium"})

\* the fallback returned together with riskLevel 'medium': three factors in
\* their intermediate band (15 + 15 + 15 = 45) and no gate open
FallbackAtMedium ==
    /\ pc = "analyzeRisk"
    /\ climate = [temperature |-> 28, relativeHumidity |-> 70, wetnessHours |-> 8]
    /\ analysis.riskScore = 45
    /\ analysis.riskLevel = "medium"
    /\ analysis.recommendations = <<LowRiskMessage>>


\* the name of a factor in `factors`, the ClimateData field it reads, and its
\* maximum and intermediate awards
FactorTable ==
    { [factor |-> "temperature", field |-> "temperature", hi |-> 25, mid |-> 15],
      [factor |-> "humidity", field |-> "relativeHumidity", hi |-> 25, mid |-> 15],
      [factor |-> "wetness", field |-> "wetnessHours", hi |-> 25, mid |-> 15],
      [factor |-> "soilMoisture", field |-> "soilMoisture", hi |-> 15, mid |-> 10],
      [factor |-> "rainfall", field |-> "rainfall", hi |-> 10, mid |-> 5] }

\* the points a factor contributed for a ClimateData record
PointsOf(c, factor) ==
    CASE factor = "temperature" ->
             BandPoints(c, "temperature", LAMBDA v : v >= 15 /\ v <= 25,
                        LAMBDA v : v >= 12 /\ v <= 28, 25, 15)
      [] factor = "humidity" ->
             BandPoints(c, "relativeHumidity", LAMBDA v : v >= 85,
                        LAMBDA v : v >= 70, 25, 15)
      [] factor = "wetness" ->
             BandPoints(c, "wetnessHours", LAMBDA v : v >= 12, LAMBDA v : v >= 8, 25, 15)
      [] factor = "soilMoisture" ->
             BandPoints(c, "soilMoisture", LAMBDA v : v >= 50 /\ v <= 80,
                        LAMBDA v : v >= 40 /\ v <= 90, 15, 10)
      [] factor = "rainfall" ->
             BandPoints(c, "rainfall", LAMBDA v : v >= 20, LAMBDA v : v >= 10, 10, 5)

\* flag 'low' iff 0 points, 'high' iff the maximum award, 'medium' iff the
\* intermediate award
FlagFollowsBand(x) ==
    LET flag == analysis.factors[x.factor].risk
        points == PointsOf(climate, x.factor)
    IN  /\ (flag = "low") <=> (points = 0)
        /\ (flag = "high") <=> (points = x.hi)
        /\ (flag = "medium") <=> (points = x.mid)

\* C26 as stated: for all five factors the flag is 'low' iff the factor
\* contributed 0 points, 'high' iff it contributed its maximum band and
\* 'medium' iff it contributed its intermediate band.
FlagsFollowBands ==
    pc = "analyzeRisk" => \A x \in FactorTable : FlagFollowsBand(x)

\* C26 amended: that holds for temperature, humidity, wetness and rainfall;
\* the soil-moisture flag is 'medium' iff soil moisture contributed its
\* maximum band (15), is 'low' otherwise (10 or 0 points), and is never 'high'.
FlagsFollowBandsButSoil ==
    pc = "analyzeRisk" =>
        /\ \A x \in FactorTable : x.factor # "soilMoisture" => FlagFollowsBand(x)
        /\ LET flag == analysis.factors.soilMoisture.risk
               points == PointsOf(climate, "soilMoisture")
           IN  /\ (flag = "medium") <=> (points = 15)
               /\ (flag = "low") <=> (points \in {0, 10})
               /\ flag # "high"

\* C26 witness: a call in which soil moisture adds its intermediate 10 points
\* under the flag 'low' while rainfall adds its intermediate 5 under 'medium'
\* and temperature its maximum under 'high'.
SoilIntermediateFlaggedLow ==
    /\ pc = "analyzeRisk"
    /\ PointsOf(climate, "soilMoisture") = 10
    /\ analysis.factors.soilMoisture.risk = "low"
    /\ PointsOf(climate, "rainfall") = 5
    /\ analysis.factors.rainfall.risk = "medium"
    /\ analysis.factors.temperature.risk = "high"


(***************************************************************************)
(* Farm health and disease severity (specification SpecPredict)            *)
(***************************************************************************)
\* the next level up
LevelAbove(level) == IF level = "Low" THEN "Medium" ELSE "High"

\* the result list with the level of entry i raised by one step
WithLevelRaised(rs, i) ==
    [k \in 1..Len(rs) |-> IF k = i THEN [rs[k] EXCEPT !.level = LevelAbove(rs[k].level)]
                          ELSE rs[k]]

\* C23: for the climate input and the results of a prediction, changing one
\* result's level from Low to Medium, or from Medium to High, never gives a
\* farm health score above the one returned.
HealthMonotoneInSeverity ==
    pc = "handlePredict" =>
        \A i \in 1..Len(results) :
            results[i].level \in {"Low", "Medium"}
                => calculateFarmHealth(params, WithLevelRaised(results, i)) <= farmHealthScore

\* what holds instead: raising a level never raises the score unless it
\* takes the number of Low results from 9 to 8
HealthMonotoneBelowNineLow ==
    pc = "handlePredict" =>
        \A i \in 1..Len(results) :
            (/\ results[i].level \in {"Low", "Medium"}
             /\ ~(results[i].level = "Low" /\ CountLevel(results, "Low") = 9))
                => calculateFarmHealth(params, WithLevelRaised(results, i)) <= farmHealthScore

\* nine Low results score 37, and the same list with one of them Medium
\* scores 46
NineLowScoreBelowEightLow ==
    /\ pc = "handlePredict"
    /\ CountLevel(results, "Low") = 9
    /\ farmHealthScore = 37
    /\ calculateFarmHealth(params, WithLevelRaised(results, 1)) = 46

(***************************************************************************)
(* The rules engine on a grid of readings: every combination of a value    *)
(* on each side of the catalog thresholds, under each mode                 *)
(***************************************************************************)
GridValues(f) ==
    CASE f = "temperature" -> {5, 18, 24, 27}
      [] f = "relativeHumidity" -> {0, 50, 70, 92}
      [] f = "rainfall" -> {0, 8, 25, 45}
      [] f = "wetnessHours" -> {0, 10, 16}
      [] f = "windSpeed" -> {0, 8, 30}
      [] f = "soilMoisture" -> {0, 65, 90}

GridFields ==
    {"temperature", "relativeHumidity", "rainfall", "wetnessHours", "windSpeed",
     "soilMoisture"}

\* readings without `mode`: scored as standard
GridStandard ==
    [temperature : GridValues("temperature"),
     relativeHumidity : GridValues("relativeHumidity"),
     rainfall : GridValues("rainfall"),
     wetnessHours : GridValues("wetnessHours"),
     windSpeed : GridValues("windSpeed"),
     soilMoisture : GridValues("soilMoisture")]

\* "other" is a mode value the type ClimateParams does not list
GridReadings ==
    GridStandard \cup {SetField(b, "mode", m) : b \in GridStandard, m \in {"meta", "other"}}

InitGrid ==
    /\ params \in GridReadings
    /\ pc = "idle"
    /\ results = <<>>
    /\ climate = NoClimate
    /\ analysis = NoAnalysis
    /\ viewParams = InitialViewParams
    /\ view = "Diseases"
    /\ riskModel = "standard"
    /\ farmHealthScore = 85
    /\ isAutoFilling = FALSE
    /\ timers = <<>>
    /\ handler = NoRequest
    /\ planet = NoFetch

NextGrid == CallDiseaseRisks \/ CallPestRisks

SpecGrid == InitGrid /\ [][NextGrid]_vars

(***************************************************************************)
(* Meta mode and the temperature and humidity fields (SpecGrid)            *)
(***************************************************************************)
\* the settings of one optional field: each of its values, or left out
SettingsOf(p, f) == {SetField(p, f, v) : v \in NumericValues(f)} \cup {Omit(p, f)}

\* the readings that differ from p in temperature, rh and relativeHumidity only
SameButClimate(p) ==
    UNION {UNION {SettingsOf(r, "relativeHumidity") : r \in SettingsOf(q, "rh")} :
              q \in {SetField(p, "temperature", t) : t \in NumericValues("temperature")}}

DiseaseNames ==
    {"Apple Scab", "Apple Leaf Blotch (Alternaria)", "Powdery Mildew", "Brown Rot",
     "Bull's[U+2011]eye Rot", "Sooty Blotch", "Flyspeck", "Collar / Root Rot",
     "Necrotic Leaf Blotch (physiological)"}

PestNames ==
    {"Fruit Fly", "Tent Caterpillar", "Fruit Borer", "European Red Mite",
     "San Jos[U+00E9] Scale", "Leaf Miner", "Woolly Apple Aphid", "Green Apple Aphid"}

\* how many entries of the returned list carry the name
Occurrences(name) == Cardinality({i \in 1..Len(results) : results[i].name = name})

\* C28: for every reading and mode, calculateDiseaseRisks returns exactly 9
\* items and calculatePestRisks exactly 8, each catalog name once and with
\* the category of the function; a mode other than 'meta' is scored as
\* standard; the first ten entries of the list are the whole list.
ListsAreTheWholeCatalog ==
    Called =>
        /\ pc = "calculateDiseaseRisks" =>
              /\ Len(results) = 9
              /\ \A n \in DiseaseNames : Occurrences(n) = 1
              /\ \A i \in 1..Len(results) : results[i].category = "Disease"
        /\ pc = "calculatePestRisks" =>
              /\ Len(results) = 8
              /\ \A n \in PestNames : Occurrences(n) = 1
              /\ \A i \in 1..Len(results) : results[i].category = "Pest"
        /\ ModeOf(params) # "meta" => results = CallOn(Omit(params, "mode"))
        /\ SliceFirst(results, 10) = results

\* C28 witness: a pest call under an unlisted mode on a reading that scores
\* some pests and leaves others at 0 returns all eight, as the standard mode
\* does.
UnlistedModeAllEight ==
    /\ pc = "calculatePestRisks"
    /\ ModeOf(params) = "other"
    /\ Len(results) = 8
    /\ results[1].score >= 80
    /\ results[8].score = 0
    /\ results = calculatePestRisks(SetField(params, "mode", "standard"))


(***************************************************************************)
(* Which items can be classified High in standard mode (SpecGrid)          *)
(***************************************************************************)
\* a grid reading given by its six values
Reading(t, rh, rain, lw, w, sm) ==
    [temperature |-> t, relativeHumidity |-> rh, rainfall |-> rain,
     wetnessHours |-> lw, windSpeed |-> w, soilMoisture |-> sm]

\* for each item other than the two capped ones, a reading that favours it
FavourableReading ==
    [n \in (DiseaseNames \ {"Collar / Root Rot", "Necrotic Leaf Blotch (physiological)"})
           \cup PestNames |->
        CASE n = "Apple Scab" -> Reading(18, 92, 8, 10, 0, 0)
          [] n = "Apple Leaf Blotch (Alternaria)" -> Reading(27, 92, 25, 10, 0, 0)
          [] n = "Powdery Mildew" -> Reading(18, 70, 0, 0, 0, 0)
          [] n = "Brown Rot" -> Reading(24, 92, 0, 10, 0, 0)
          [] n = "Bull's[U+2011]eye Rot" -> Reading(18, 92, 25, 10, 0, 0)
          [] n = "Sooty Blotch" -> Reading(24, 92, 8, 16, 0, 0)
          [] n = "Flyspeck" -> Reading(24, 92, 8, 16, 0, 0)
          [] n = "Fruit Fly" -> Reading(27, 92, 25, 0, 30, 90)
          [] n = "Tent Caterpillar" -> Reading(24, 50, 8, 0, 0, 0)
          [] n = "Fruit Borer" -> Reading(24, 70, 25, 0, 0, 0)
          [] n = "European Red Mite" -> Reading(27, 50, 0, 0, 0, 0)
          [] n = "San Jos[U+00E9] Scale" -> Reading(27, 50, 8, 0, 0, 0)
          [] n = "Leaf Miner" -> Reading(24, 50, 8, 0, 0, 0)
          [] n = "Woolly Apple Aphid" -> Reading(18, 70, 25, 0, 0, 65)
          [] n = "Green Apple Aphid" -> Reading(18, 70, 25, 0, 0, 0)]

\* the result the function owning the item gives it under reading p
ResultUnder(p, n) ==
    LET list == IF n \in DiseaseNames THEN calculateDiseaseRisks(p) ELSE calculatePestRisks(p)
    IN  list[CHOOSE i \in 1..Len(list) : list[i].name = n]

\* the level each of those items is given under its favourable reading
FavourableLevel ==
    [n \in DOMAIN FavourableReading |-> ResultUnder(FavourableReading[n], n).level]

\* C27: in standard mode Necrotic Leaf Blotch never scores above 40 and
\* Collar / Root Rot never above 60, so neither is ever High; every other
\* disease and every pest is High under some reading of the grid.
OnlyTwoNeverHigh ==
    /\ (pc = "calculateDiseaseRisks" /\ ModeOf(params) # "meta") =>
          LET necrotic == ResultOf("Necrotic Leaf Blotch (physiological)")
              collar == ResultOf("Collar / Root Rot")
          IN  /\ necrotic.score <= 40 /\ necrotic.level # "High"
              /\ collar.score <= 60 /\ collar.level # "High"
    /\ \A n \in DOMAIN FavourableReading :
          /\ FavourableReading[n] \in GridReadings
          /\ ModeOf(FavourableReading[n]) # "meta"
          /\ FavourableLevel[n] = "High"

\* C27 witness: a standard-mode disease call in which both capped items sit
\* on their caps, Medium, while Brown Rot is High on three of its four checks.
BothCapsReached ==
    /\ pc = "calculateDiseaseRisks" /\ ModeOf(params) # "meta"
    /\ ResultOf("Necrotic Leaf Blotch (physiological)").score = 40
    /\ ResultOf("Collar / Root Rot").score = 60
    /\ ResultOf("Collar / Root Rot").level = "Medium"
    /\ ResultOf("Brown Rot").score = 72
    /\ ResultOf("Brown Rot").level = "High"


(***************************************************************************)
(* The loading flag and the pending auto-predictions (SpecAutoFill)        *)
(***************************************************************************)
\* C22: whenever at least one scheduled auto-prediction has not yet run,
\* isAutoFilling is true, so the loading indicator shows and the Predict
\* button is disabled.
FlagWhilePending == timers # <<>> => isAutoFilling

\* the flag down, and the Predict button enabled, with an auto-prediction
\* still to run: the callback of an earlier auto-fill lowered it
FlagDownWhilePending ==
    /\ timers # <<>>
    /\ ~isAutoFilling
    /\ pc = "autoPredict"

\* C29: after Clear, results is empty and farmHealthScore is 85, and both
\* stay so in every step that is not a handlePredict or a new
\* handlePlanetAutoFill call.  (pc is "idle" only initially and after Clear,
\* and the two steps excepted are those that set pc to their names.)
ClearedStaysCleared ==
    [][(/\ pc = "idle" /\ results = <<>> /\ farmHealthScore = 85
        /\ pc' \notin {"handlePredict", "handlePlanetAutoFill"})
          => (results' = <<>> /\ farmHealthScore' = 85)]_vars

\* what Clear does establish: right after it, whatever is pending
ClearEmpties == pc = "idle" => (results = <<>> /\ farmHealthScore = 85)

\* Clear has run with an auto-prediction pending
ClearedWhilePending ==
    /\ pc = "idle" /\ results = <<>> /\ farmHealthScore = 85
    /\ timers # <<>>


(***************************************************************************)
(* The status codes of planet-aoi (specification SpecAoi)                  *)
(***************************************************************************)
\* a body that parsed and does not hold aoi.geometry.coordinates
LacksCoordinates(body) ==
    /\ body.kind # "unparseable"
    /\ body.kind = "object" => MissingGeometry(body.fields)

\* a POST whose body passed both checks of the handler
Accepted(req) ==
    /\ req.method = "POST"
    /\ req.body.kind = "object"
    /\ ~MissingGeometry(req.body.fields)

\* the weather fetch failed or answered without daily data
WeatherFailedOrEmpty(weather) ==
    \/ weather.fetch = "rejects"
    \/ ~weather.ok
    \/ weather.json.kind = "unparseable"
    \/ ~Has(weather.json.fields, "daily")
    \/ weather.json.fields.daily.time = <<>>

\* an accepted request on which the try block throws outside fetchClimateData
ThrowsOutsideFetch(req) ==
    /\ Accepted(req)
    /\ \/ Has(getAOICenter(req.body.fields.aoi.geometry), "throws")
       \/ ~Has(req.body.fields.aoi, "properties")
       \/ ~Has(req.body.fields, "layers")

\* the 200 answer to a failed or empty weather fetch
EmptyAnalysisAnswer(response) ==
    /\ response.status = 200
    /\ response.body.success
    /\ DOMAIN response.body.climateData = {}
    /\ response.body.riskAnalysis.riskScore = 0
    /\ response.body.riskAnalysis.riskLevel = "low"
    /\ response.body.riskAnalysis.recommendations = <<FallbackRecommendation>>

\* the clauses of C30 other than the one on a body lacking the coordinates
StatusCodesApartFromMissing ==
    LET req == handler.req
        response == handler.response
    IN  /\ req.method = "OPTIONS" => (response.status = 204 /\ handler.fetches = 0)
        /\ req.method \notin {"OPTIONS", "POST"}
              => (response.status = 405 /\ handler.fetches = 0)
        /\ (req.method = "POST" /\ req.body.kind = "unparseable")
              => (response.status = 400 /\ handler.fetches = 0)
        /\ (Accepted(req) /\ ~ThrowsOutsideFetch(req) /\ WeatherFailedOrEmpty(handler.weather))
              => EmptyAnalysisAnswer(response)
        /\ response.status = 500
              => (ThrowsOutsideFetch(req) \/ (req.method = "POST" /\ req.body.kind = "null"))

\* C30: OPTIONS is answered 204, any other method but POST 405, a POST with
\* an unparseable body 400 and a POST lacking aoi.geometry.coordinates 400,
\* all with no weather request made; an accepted request whose weather fetch
\* fails or comes back empty is answered 200 with success true, empty
\* climateData, riskScore 0, riskLevel 'low' and the fallback recommendation
\* alone; 500 is answered only when an exception is thrown outside
\* fetchClimateData.
PlanetAoiStatusCodes ==
    pc = "responded" =>
        /\ StatusCodesApartFromMissing
        /\ (handler.req.method = "POST" /\ LacksCoordinates(handler.req.body))
              => (handler.response.status = 400 /\ handler.fetches = 0)

\* what holds: the same with the body `null` set apart, which is answered
\* 500 by the runtime and not 400
PlanetAoiStatusCodesButNull ==
    pc = "responded" =>
        /\ StatusCodesApartFromMissing
        /\ (/\ handler.req.method = "POST" /\ LacksCoordinates(handler.req.body)
            /\ handler.req.body.kind # "null")
              => (handler.response.status = 400 /\ handler.fetches = 0)
        /\ (handler.req.method = "POST" /\ handler.req.body.kind = "null")
              => (handler.response.status = 500 /\ handler.fetches = 0)

\* an accepted request answered 200 on an empty analysis after the weather
\* fetch was made and rejected
RejectedFetchAnswered200 ==
    /\ pc = "responded"
    /\ Accepted(handler.req)
    /\ handler.weather.fetch = "rejects"
    /\ handler.fetches = 1
    /\ EmptyAnalysisAnswer(handler.response)

====
